---- MODULE Spec2Model ----
(***************************************************************************)
(* Model of the task-plan engine of the support-session backend            *)
(* (backend/app/services/task_planner.py, class TaskPlanner) and of its    *)
(* knowledge base (knowledge_base.py, class KnowledgeBase, with the        *)
(* feedback table of database.py).                                         *)
(*                                                                         *)
(* Every TaskPlanner and KnowledgeBase method is synchronous and contains  *)
(* no await, so each call made by a REST or WebSocket handler of main.py   *)
(* runs to its return without interleaving: one action per method call.    *)
(* The two services share no state; Spec lets the task-plan engine run,    *)
(* SpecKB the knowledge base, SpecSearch applies search to one query.      *)
(***************************************************************************)
EXTENDS Integers, Sequences, FiniteSets, TLC

(***************************************************************************)
(* Bounds of the model.                                                    *)
(***************************************************************************)
\* most plans ever registered in TaskPlanner.plans
MaxPlans == 2
\* most step blueprints handed to one create_plan call
MaxSteps == 2
\* horizon of the logical clock read by datetime.now(): every call that
\* stamps a time advances the clock, and no call is issued once the clock
\* has reached MaxClock
MaxClock == 4
\* most steps of a plan of the sitting that SpecSession follows
MaxSessionSteps == 1
\* most steps of the plan whose progress SpecProgress computes
MaxTotal == 50
\* most words joined into one search query
MaxWords == 2
\* most feedback messages sent to the knowledge base
MaxFeedback == 2
\* most callers with a feedback message waiting for its handler
MaxCallers == 2
\* most restarts of the process that SpecRestart follows
MaxRestarts == 2

(***************************************************************************)
(* Enumerations and input domains.                                         *)
(***************************************************************************)
\* StepStatus
PENDING == "pending"
IN_PROGRESS == "in_progress"
COMPLETED == "completed"
FAILED == "failed"
SKIPPED == "skipped"
StepStatus == {PENDING, IN_PROGRESS, COMPLETED, FAILED, SKIPPED}

\* PlanStatus (values shared with StepStatus where the strings coincide)
CREATED == "created"
CANCELLED == "cancelled"
PlanStatus == {CREATED, IN_PROGRESS, COMPLETED, FAILED, CANCELLED}

\* Python's None, for an id or a timestamp (ids are >= 1, and so are the
\* times stamped by the calls of a run)
None == 0
\* Python's None, for an Optional[str] field
NoneStr == "None"

\* session ids handed in by the callers
SessionPool == <<"s1", "s2">>
Sessions == { SessionPool[k] : k \in 1..Len(SessionPool) }
\* error messages handed to fail_step
MessagePool == <<"e1", "e2">>
ErrorMessages == { MessagePool[k] : k \in 1..Len(MessagePool) }
\* step blueprints a caller may put in the steps list: a well-formed one per
\* title, and malformed ones: with no "title" key, with no "description"
\* key, with neither
TitlePool == <<"A", "B", "C", "D">>
StepData(k) == [title |-> TitlePool[k], description |-> TitlePool[k]]
Malformed == [description |-> "X"]
NoDescription == [title |-> "X"]
NoKeys == [note |-> "X"]
MalformedKinds == {Malformed, NoDescription, NoKeys}

\* the well-formed list of length n: the first n titles
GoodLists(n) == { [i \in 1..n |-> StepData(i)] }
\* the lists of length n with one malformed blueprint, at any position
BadLists(n) ==
    { [i \in 1..n |-> IF i = k THEN bad ELSE StepData(i)] :
        k \in 1..n, bad \in MalformedKinds }
\* the steps arguments of create_plan: lists of length 0..MaxSteps
BlueprintLists == UNION { GoodLists(n) \cup BadLists(n) : n \in 0..MaxSteps }

VARIABLES
    plans,      \* TaskPlanner.plans: the registered TaskPlan objects, in
                \* insertion order (a dict keeps insertion order)
    nextUuid,   \* the next value uuid.uuid4() returns (fresh ids)
    now,        \* the value datetime.now() returns
    last,       \* the last call: the method's name and its return value
    solutions,  \* KnowledgeBase.solutions: the Solution objects by id (ids
                \* are drawn afresh by every run of the process)
    kb_feedback,\* the rows of table kb_feedback, by solution_id
    pending,    \* the feedback message of each caller that waits for its
                \* handler to run
    sent,       \* the feedback messages sent so far, counted by solution
                \* id and outcome
    kbLast,     \* the last knowledge-base call and what it returned
    query_arg,  \* the query argument of the search under study
    category_arg,   \* its category argument
    message_arg,    \* the message argument of the detect_template call
                    \* under study
    detected,   \* what that call returned
    steps_arg,  \* the steps of the plan whose progress is under study
    snapshot    \* the progress computed for them, once it is

plannerVars == <<plans, nextUuid, now, last>>
kbVars == <<solutions, kb_feedback, pending, sent, kbLast>>
searchVars == <<query_arg, category_arg>>
detectVars == <<message_arg, detected>>
progressVars == <<steps_arg, snapshot>>
argVars == <<searchVars, detectVars, progressVars>>
vars == <<plans, nextUuid, now, last, solutions, kb_feedback, pending, sent,
          kbLast, query_arg, category_arg, message_arg, detected, steps_arg,
          snapshot>>

\* ids a caller may name.  0 is never handed out by uuid4 and stands for
\* every id that resolves to nothing; the other plan ids are those of the
\* registered plans.  With a plan id go the ids of the steps of that plan,
\* the id of a step of another plan (the first there is: the engine treats
\* every step id that is not of the named plan alike) and 0.
PlanIds == { plans[i].id : i \in 1..Len(plans) } \cup {0}
StepIdsOf(plan_id) ==
    UNION { { plans[i].steps[j].id : j \in 1..Len(plans[i].steps) } :
            i \in { i \in 1..Len(plans) : plans[i].id = plan_id } }
ForeignStepIds(plan_id) ==
    UNION { { plans[i].steps[j].id : j \in 1..Len(plans[i].steps) } :
            i \in { i \in 1..Len(plans) : plans[i].id # plan_id } }
StepIds(plan_id) ==
    LET foreign == ForeignStepIds(plan_id)
    IN  StepIdsOf(plan_id) \cup {0} \cup
        { id \in foreign : \A other \in foreign : id <= other }

\* Session ids and error messages are opaque strings that the engine only
\* stores and compares for equality, so a behaviour and its image under a
\* renaming of them are alike: a caller names a string already in use in
\* the engine's state or the first one of the pool that is not.
FirstUnused(pool, used) ==
    { pool[k] : k \in { k \in 1..Len(pool) :
                          /\ pool[k] \notin used
                          /\ \A m \in 1..(k - 1) : pool[m] \in used } }
UsedSessions == { plans[i].session_id : i \in 1..Len(plans) }
SessionInputs == UsedSessions \cup FirstUnused(SessionPool, UsedSessions)
UsedMessages ==
    UNION { { plans[i].steps[j].error_message :
                j \in 1..Len(plans[i].steps) } : i \in 1..Len(plans) }
    \ {NoneStr}
MessageInputs == UsedMessages \cup FirstUnused(MessagePool, UsedMessages)

(***************************************************************************)
(* Return values.  ok = FALSE is the None return (or a raised KeyError for *)
(* create_plan); the other fields are the keys of the returned dict that   *)
(* the properties speak about.                                             *)
(***************************************************************************)
RetNone == [ok |-> FALSE, plan |-> None, step |-> None,
            next_step |-> None, is_complete |-> FALSE]

Call(op, ret) == [op |-> op, ret |-> ret]

(***************************************************************************)
(* Lookups.                                                                *)
(***************************************************************************)
\* self.plans.get(plan_id): position of the plan in the dict, 0 if absent
FindPlan(plan_id) ==
    IF \E i \in 1..Len(plans) : plans[i].id = plan_id
    THEN CHOOSE i \in 1..Len(plans) : plans[i].id = plan_id
    ELSE 0

\* FindStep with the loop variable kept after the loop: the last step of the
\* plan is returned when no id matches
FindStep_last(plan, step_id) ==
    IF \E i \in 1..Len(plan.steps) : plan.steps[i].id = step_id
    THEN CHOOSE i \in 1..Len(plan.steps) :
            /\ plan.steps[i].id = step_id
            /\ \A j \in 1..(i-1) : plan.steps[j].id # step_id
    ELSE Len(plan.steps)

\* the "Find the step" loop: first position whose id matches, 0 if none
FindStep(plan, step_id) ==
    IF \E i \in 1..Len(plan.steps) : plan.steps[i].id = step_id
    THEN CHOOSE i \in 1..Len(plan.steps) :
            /\ plan.steps[i].id = step_id
            /\ \A j \in 1..(i-1) : plan.steps[j].id # step_id
    ELSE 0

(***************************************************************************)
(* create_plan                                                             *)
(***************************************************************************)
\* NewStep with enumerate's 0-based index used as the order
NewStep_zero(plan_id, step_id, i, step_data) ==
    [id |-> step_id, plan_id |-> plan_id, order |-> i - 1,
     title |-> step_data.title, description |-> step_data.description,
     status |-> PENDING, error_message |-> NoneStr,
     started_at |-> None, completed_at |-> None]

\* the TaskStep built for blueprint number i (1-based here, enumerate's i
\* is 0-based: order = i + 1 there, the position here)
NewStep(plan_id, step_id, i, step_data) ==
    [id |-> step_id, plan_id |-> plan_id, order |-> i,
     title |-> step_data.title, description |-> step_data.description,
     status |-> PENDING, error_message |-> NoneStr,
     started_at |-> None, completed_at |-> None]

\* the TaskPlan object with its steps appended
NewPlan(plan_id, session_id, title, description, steps, t) ==
    [id |-> plan_id, session_id |-> session_id, title |-> title,
     description |-> description, template_id |-> NoneStr,
     steps |-> [i \in 1..Len(steps) |->
                    NewStep(plan_id, plan_id + i, i, steps[i])],
     status |-> CREATED, created_at |-> t,
     started_at |-> None, completed_at |-> None]

\* step_data["title"] / step_data["description"] raise KeyError on a
\* blueprint that lacks the key
WellFormed(step_data) ==
    /\ "title" \in DOMAIN step_data
    /\ "description" \in DOMAIN step_data

\* CreatePlan that registers the plan before it builds the steps: a list
\* with a malformed blueprint leaves a plan with the steps that precede it
CreatePlan_partial(session_id, title, description, steps) ==
    /\ Len(plans) < MaxPlans
    /\ now < MaxClock
    /\ IF \A i \in 1..Len(steps) : WellFormed(steps[i])
       THEN /\ plans' = Append(plans, NewPlan(nextUuid, session_id, title,
                                              description, steps, now))
            /\ nextUuid' = nextUuid + Len(steps) + 1
            /\ now' = now + 1
            /\ last' = Call("create_plan",
                            [RetNone EXCEPT !.ok = TRUE, !.plan = nextUuid])
       ELSE LET k == CHOOSE k \in 1..Len(steps) :
                        /\ ~WellFormed(steps[k])
                        /\ \A m \in 1..(k - 1) : WellFormed(steps[m])
            IN  /\ plans' = Append(plans,
                                   NewPlan(nextUuid, session_id, title,
                                           description,
                                           SubSeq(steps, 1, k - 1), now))
                /\ nextUuid' = nextUuid + k
                /\ now' = now + 1
                /\ last' = Call("create_plan", RetNone)

CreatePlan(session_id, title, description, steps) ==
    /\ Len(plans) < MaxPlans
    /\ now < MaxClock
    /\ IF \A i \in 1..Len(steps) : WellFormed(steps[i])
       THEN /\ plans' = Append(plans, NewPlan(nextUuid, session_id, title,
                                              description, steps, now))
            /\ nextUuid' = nextUuid + Len(steps) + 1
            /\ now' = now + 1
            /\ last' = Call("create_plan",
                            [RetNone EXCEPT !.ok = TRUE, !.plan = nextUuid])
       ELSE \* KeyError is raised before self.plans[plan_id] = plan
            /\ last' = Call("create_plan", RetNone)
            /\ UNCHANGED <<plans, nextUuid, now>>

(***************************************************************************)
(* start_plan                                                              *)
(***************************************************************************)
\* CanStart without the "not a new plan" rejection
CanStart_any(plan) == TRUE

\* CanStart that refuses a plan whose session has a plan in progress
CanStart_single(plan) ==
    /\ plan.status = CREATED
    /\ \A i \in 1..Len(plans) :
          plans[i].session_id = plan.session_id
          => plans[i].status # IN_PROGRESS

\* "Can only start a new plan"
CanStart(plan) == plan.status = CREATED

\* StartedPlan that puts every step of the plan in progress
StartedPlan_all(plan, t) ==
    [plan EXCEPT
        !.status = IN_PROGRESS,
        !.started_at = t,
        !.steps = [k \in 1..Len(plan.steps) |->
                      [plan.steps[k] EXCEPT !.status = IN_PROGRESS,
                                            !.started_at = t]]]

\* StartedPlan that starts the plan and none of its steps
StartedPlan_planonly(plan, t) ==
    [plan EXCEPT !.status = IN_PROGRESS, !.started_at = t]

\* the plan after start_plan's assignments: plan in_progress and stamped,
\* steps[0] (position 1 here) in_progress and stamped when there is one
StartedPlan(plan, t) ==
    [plan EXCEPT
        !.status = IN_PROGRESS,
        !.started_at = t,
        !.steps = IF Len(plan.steps) > 0
                  THEN [plan.steps EXCEPT ![1].status = IN_PROGRESS,
                                          ![1].started_at = t]
                  ELSE plan.steps]

StartPlan(plan_id) ==
    /\ now < MaxClock
    /\ LET pi == FindPlan(plan_id)
       IN  IF pi = 0 \/ ~CanStart(plans[pi])
           THEN /\ last' = Call("start_plan", RetNone)
                /\ UNCHANGED <<plans, nextUuid, now>>
           ELSE /\ plans' = [plans EXCEPT
                                ![pi] = StartedPlan(plans[pi], now)]
                /\ now' = now + 1
                /\ last' = Call("start_plan",
                                [RetNone EXCEPT !.ok = TRUE,
                                                !.plan = plan_id])
                /\ UNCHANGED nextUuid

(***************************************************************************)
(* complete_step and skip_step                                             *)
(***************************************************************************)
\* MarkStep that yields between its two assignments: the status is written,
\* completed_at is not yet
MarkStep_nostamp(plan, step_index, status, t) ==
    [plan EXCEPT !.steps[step_index].status = status]

\* "Mark step completed" / "Mark step skipped": status and completed_at of
\* the step found
MarkStep(plan, step_index, status, t) ==
    [plan EXCEPT !.steps[step_index].status = status,
                 !.steps[step_index].completed_at = t]

\* HasNext off by one: the last step is never taken as a next step
HasNext_short(plan, step_index) == step_index + 1 < Len(plan.steps)

\* step_index + 1 < len(plan.steps) with 0-based step_index; positions are
\* 1-based here
HasNext(plan, step_index) == step_index < Len(plan.steps)

\* Advance that gives the step it starts the order of the step before it
Advance_renumber(plan, step_index, t) ==
    IF HasNext(plan, step_index)
    THEN [plan EXCEPT !.steps[step_index + 1].status = IN_PROGRESS,
                      !.steps[step_index + 1].started_at = t,
                      !.steps[step_index + 1].order = step_index]
    ELSE [plan EXCEPT !.status = COMPLETED, !.completed_at = t]

\* "Find next step": start the step after step_index, or complete the plan
Advance(plan, step_index, t) ==
    IF HasNext(plan, step_index)
    THEN [plan EXCEPT !.steps[step_index + 1].status = IN_PROGRESS,
                      !.steps[step_index + 1].started_at = t]
    ELSE [plan EXCEPT !.status = COMPLETED, !.completed_at = t]

\* the dict complete_step and skip_step return: plan is the plan after the
\* call, next_step the step started by the call (None if none was)
StepRet(plan, step_index) ==
    [ok |-> TRUE, plan |-> plan.id, step |-> plan.steps[step_index].id,
     next_step |-> IF HasNext(plan, step_index)
                   THEN plan.steps[step_index + 1].id ELSE None,
     is_complete |-> (plan.status = COMPLETED)]

\* CompleteStep that also writes the new status of the plan to the other
\* plans of its session
CompleteStep_spill(plan_id, step_id) ==
    /\ now < MaxClock
    /\ LET pi == FindPlan(plan_id)
           si == IF pi = 0 THEN 0 ELSE FindStep(plans[pi], step_id)
       IN  IF pi = 0 \/ si = 0
           THEN /\ last' = Call("complete_step", RetNone)
                /\ UNCHANGED <<plans, nextUuid, now>>
           ELSE LET plan2 == Advance(MarkStep(plans[pi], si, COMPLETED, now),
                                     si, now)
                IN  /\ plans' =
                          [i \in 1..Len(plans) |->
                              IF i = pi THEN plan2
                              ELSE IF plans[i].session_id = plan2.session_id
                                   THEN [plans[i] EXCEPT
                                            !.status = plan2.status]
                                   ELSE plans[i]]
                    /\ now' = now + 1
                    /\ last' = Call("complete_step", StepRet(plan2, si))
                    /\ UNCHANGED nextUuid

CompleteStep(plan_id, step_id) ==
    /\ now < MaxClock
    /\ LET pi == FindPlan(plan_id)
           si == IF pi = 0 THEN 0 ELSE FindStep(plans[pi], step_id)
       IN  IF pi = 0 \/ si = 0
           THEN /\ last' = Call("complete_step", RetNone)
                /\ UNCHANGED <<plans, nextUuid, now>>
           ELSE LET plan2 == Advance(MarkStep(plans[pi], si, COMPLETED, now),
                                     si, now)
                IN  /\ plans' = [plans EXCEPT ![pi] = plan2]
                    /\ now' = now + 1
                    /\ last' = Call("complete_step", StepRet(plan2, si))
                    /\ UNCHANGED nextUuid

\* SkipStep that only marks the step: the next step is not started and the
\* plan is not completed
SkipStep_stay(plan_id, step_id) ==
    /\ now < MaxClock
    /\ LET pi == FindPlan(plan_id)
           si == IF pi = 0 THEN 0 ELSE FindStep(plans[pi], step_id)
       IN  IF pi = 0 \/ si = 0
           THEN /\ last' = Call("skip_step", RetNone)
                /\ UNCHANGED <<plans, nextUuid, now>>
           ELSE LET plan2 == MarkStep(plans[pi], si, SKIPPED, now)
                IN  /\ plans' = [plans EXCEPT ![pi] = plan2]
                    /\ now' = now + 1
                    /\ last' = Call("skip_step",
                                    [StepRet(plan2, si) EXCEPT
                                        !.next_step = None])
                    /\ UNCHANGED nextUuid

SkipStep(plan_id, step_id) ==
    /\ now < MaxClock
    /\ LET pi == FindPlan(plan_id)
           si == IF pi = 0 THEN 0 ELSE FindStep(plans[pi], step_id)
       IN  IF pi = 0 \/ si = 0
           THEN /\ last' = Call("skip_step", RetNone)
                /\ UNCHANGED <<plans, nextUuid, now>>
           ELSE LET plan2 == Advance(MarkStep(plans[pi], si, SKIPPED, now),
                                     si, now)
                IN  /\ plans' = [plans EXCEPT ![pi] = plan2]
                    /\ now' = now + 1
                    /\ last' = Call("skip_step", StepRet(plan2, si))
                    /\ UNCHANGED nextUuid

(***************************************************************************)
(* fail_step                                                               *)
(***************************************************************************)
\* FailedPlan that carries on with the next step instead of failing the
\* plan (the alternative the source comment mentions)
FailedPlan_continue(plan, step_index, error_message, t) ==
    Advance([plan EXCEPT !.steps[step_index].status = FAILED,
                         !.steps[step_index].error_message = error_message,
                         !.steps[step_index].completed_at = t],
            step_index, t)

\* the plan after fail_step's assignments: the step failed with its message
\* and completed_at, the plan failed
FailedPlan(plan, step_index, error_message, t) ==
    [plan EXCEPT !.steps[step_index].status = FAILED,
                 !.steps[step_index].error_message = error_message,
                 !.steps[step_index].completed_at = t,
                 !.status = FAILED]

FailStep(plan_id, step_id, error_message) ==
    /\ now < MaxClock
    /\ LET pi == FindPlan(plan_id)
           si == IF pi = 0 THEN 0 ELSE FindStep(plans[pi], step_id)
       IN  IF pi = 0 \/ si = 0
           THEN /\ last' = Call("fail_step", RetNone)
                /\ UNCHANGED <<plans, nextUuid, now>>
           ELSE /\ plans' = [plans EXCEPT
                    ![pi] = FailedPlan(plans[pi], si, error_message, now)]
                /\ now' = now + 1
                /\ last' = Call("fail_step",
                                [RetNone EXCEPT !.ok = TRUE,
                                                !.plan = plan_id,
                                                !.step = step_id])
                /\ UNCHANGED nextUuid

(***************************************************************************)
(* TaskPlan.progress.  Python's "/" on two ints and "*" on a float are the *)
(* IEEE-754 double operations: the exact result rounded to 53 significant  *)
(* bits, ties to the even significand.  A float is kept here as its        *)
(* significand and a scale: its value is significand / 2^scale.  The       *)
(* significand is written in four digits of 16 bits, the most significant  *)
(* first, the first digit being as large as the number needs.              *)
(***************************************************************************)
\* the significant bits of a Python float
MantissaBits == 53

\* 2^n
RECURSIVE Pow2(_)
Pow2(n) == IF n = 0 THEN 1 ELSE 2 * Pow2(n - 1)

\* the bits of one digit of a significand, the digits of a significand,
\* and the base they are written in
DigitBits == 16
Digits == 4
Base == Pow2(DigitBits)

\* the number of bits of n
RECURSIVE BitLen(_)
BitLen(n) == IF n = 0 THEN 0 ELSE 1 + BitLen(n \div 2)

\* a significand plus one
RECURSIVE Increment(_)
Increment(digits) ==
    LET n == Len(digits)
    IN  IF n = 1 \/ digits[n] + 1 < Base
        THEN [digits EXCEPT ![n] = digits[n] + 1]
        ELSE Increment(SubSeq(digits, 1, n - 1)) \o <<0>>

\* round to nearest, ties to even: digits stands for the kept part of a
\* number, and what was cut off compares to half a unit of the last kept
\* bit as part compares to half
RoundNearestEven(digits, part, half) ==
    IF part > half \/ (part = half /\ digits[Len(digits)] % 2 = 1)
    THEN Increment(digits)
    ELSE digits

\* the least e with completed * 2^e >= total (completed > 0)
RECURSIVE Exponent(_, _)
Exponent(completed, total) ==
    IF completed >= total THEN 0
    ELSE 1 + Exponent(2 * completed, total)

\* long division: the next n digits of rem / total (rem < total) and the
\* remainder they leave
RECURSIVE QuotientDigits(_, _, _)
QuotientDigits(rem, total, n) ==
    IF n = 0 THEN [digits |-> << >>, rem |-> rem]
    ELSE LET rest == QuotientDigits((rem * Base) % total, total, n - 1)
         IN  [digits |-> <<(rem * Base) \div total>> \o rest.digits,
              rem |-> rest.rem]

\* completed / total for 0 <= completed <= total, total > 0: the quotient
\* to MantissaBits bits, rounded by the remainder of the division
TrueDivide(completed, total) ==
    IF completed = 0
    THEN [digits |-> [i \in 1..Digits |-> 0], scale |-> MantissaBits - 1]
    ELSE LET e == Exponent(completed, total)
             first_bits == MantissaBits - DigitBits * (Digits - 1)
             dividend == completed * Pow2(e + first_bits - 1)
             q == QuotientDigits(dividend % total, total, Digits - 1)
         IN  [digits |-> RoundNearestEven(
                             <<dividend \div total>> \o q.digits,
                             2 * q.rem, total),
              scale |-> e + MantissaBits - 1]

\* digits * factor, the carry of the lower digits added
RECURSIVE TimesDigits(_, _, _)
TimesDigits(digits, factor, carry) ==
    LET n == Len(digits)
        product == digits[n] * factor + carry
    IN  IF n = 1 THEN <<product>>
        ELSE TimesDigits(SubSeq(digits, 1, n - 1), factor,
                         product \div Base)
             \o <<product % Base>>

\* digits without its last cut bits (cut < DigitBits)
ShiftRight(digits, cut) ==
    [i \in 1..Len(digits) |->
        (digits[i] \div Pow2(cut))
        + (IF i > 1
           THEN (digits[i - 1] % Pow2(cut)) * Pow2(DigitBits - cut)
           ELSE 0)]

\* x * 100: the exact product, rounded to MantissaBits bits
Times100(x) ==
    LET product == TimesDigits(x.digits, 100, 0)
        bits == BitLen(product[1]) + DigitBits * (Digits - 1)
        cut == IF bits > MantissaBits THEN bits - MantissaBits ELSE 0
    IN  IF cut = 0 THEN [digits |-> product, scale |-> x.scale]
        ELSE [digits |-> RoundNearestEven(ShiftRight(product, cut),
                                          2 * (product[Digits] % Pow2(cut)),
                                          Pow2(cut)),
              scale |-> x.scale - cut]

\* int(x) for 0 <= x < 2^DigitBits: the digits before the binary point,
\* which lie in the first two digits of the significand (the scale of
\* such an x is at least the bits of the digits that follow them)
IntOf(x) ==
    (x.digits[1] * Base + x.digits[2])
    \div Pow2(x.scale - DigitBits * (Digits - 2))

\* int((completed / total) * 100) if total > 0 else 0
Percent(completed, total) ==
    IF total > 0 THEN IntOf(Times100(TrueDivide(completed, total))) ELSE 0

\* sum(1 for s in self.steps if s.status == status)
CountStatus(steps, status) ==
    Cardinality({ i \in 1..Len(steps) : steps[i].status = status })

\* TaskPlan.progress, of the steps of the plan
Progress(steps) ==
    [total |-> Len(steps),
     completed |-> CountStatus(steps, COMPLETED),
     failed |-> CountStatus(steps, FAILED),
     skipped |-> CountStatus(steps, SKIPPED),
     pending |-> CountStatus(steps, PENDING),
     in_progress |-> CountStatus(steps, IN_PROGRESS),
     percent |-> Percent(CountStatus(steps, COMPLETED), Len(steps))]

(***************************************************************************)
(* The read-only calls: current_step, get_active_plan and                  *)
(* get_context_for_session.  An Optional dict is a sequence of at most one *)
(* record.                                                                 *)
(***************************************************************************)
\* TaskPlan.current_step: the id of the first step in progress, else of the
\* first pending step, else None
CurrentStep(plan) ==
    LET first(status) ==
            CHOOSE i \in 1..Len(plan.steps) :
                /\ plan.steps[i].status = status
                /\ \A j \in 1..(i - 1) : plan.steps[j].status # status
    IN  IF \E i \in 1..Len(plan.steps) : plan.steps[i].status = IN_PROGRESS
        THEN plan.steps[first(IN_PROGRESS)].id
        ELSE IF \E i \in 1..Len(plan.steps) : plan.steps[i].status = PENDING
             THEN plan.steps[first(PENDING)].id
             ELSE None

\* ActivePlan that keeps the last plan of the session that is in progress
ActivePlan_last(session_id) ==
    LET active(i) == /\ plans[i].session_id = session_id
                     /\ plans[i].status = IN_PROGRESS
    IN  IF \E i \in 1..Len(plans) : active(i)
        THEN CHOOSE i \in 1..Len(plans) :
                /\ active(i)
                /\ \A j \in (i + 1)..Len(plans) : ~active(j)
        ELSE 0

\* the loop of get_active_plan over self.plans.values(): the position of
\* the first plan of the session that is in progress, 0 if there is none
ActivePlan(session_id) ==
    LET active(i) == /\ plans[i].session_id = session_id
                     /\ plans[i].status = IN_PROGRESS
    IN  IF \E i \in 1..Len(plans) : active(i)
        THEN CHOOSE i \in 1..Len(plans) :
                /\ active(i)
                /\ \A j \in 1..(i - 1) : ~active(j)
        ELSE 0

\* get_active_plan: plan.to_dict() with the id and the current_step of the
\* plan, or None
GetActivePlan(session_id) ==
    /\ LET pi == ActivePlan(session_id)
       IN  last' = Call("get_active_plan",
                        IF pi = 0 THEN RetNone
                        ELSE [RetNone EXCEPT
                                 !.ok = TRUE,
                                 !.plan = plans[pi].id,
                                 !.step = CurrentStep(plans[pi])])
    /\ UNCHANGED <<plans, nextUuid, now>>

\* the dict get_context_for_session returns without an active plan
NoContext ==
    [has_active_plan |-> FALSE, plan |-> << >>, current_step |-> None,
     progress |-> << >>]

\* ContextOf that takes the first plan of the session, started or not
ContextOf_created(session_id) ==
    IF \E i \in 1..Len(plans) : plans[i].session_id = session_id
    THEN LET pi == CHOOSE i \in 1..Len(plans) :
                      /\ plans[i].session_id = session_id
                      /\ \A j \in 1..(i - 1) :
                            plans[j].session_id # session_id
         IN  [has_active_plan |-> TRUE,
              plan |-> <<[id |-> plans[pi].id,
                          title |-> plans[pi].title,
                          description |-> plans[pi].description]>>,
              current_step |-> CurrentStep(plans[pi]),
              progress |-> <<Progress(plans[pi].steps)>>]
    ELSE NoContext

\* the dict get_context_for_session returns
ContextOf(session_id) ==
    LET pi == ActivePlan(session_id)
    IN  IF pi = 0 THEN NoContext
        ELSE [has_active_plan |-> TRUE,
              plan |-> <<[id |-> plans[pi].id,
                          title |-> plans[pi].title,
                          description |-> plans[pi].description]>>,
              current_step |-> CurrentStep(plans[pi]),
              progress |-> <<Progress(plans[pi].steps)>>]

GetContextForSession(session_id) ==
    /\ last' = Call("get_context_for_session", ContextOf(session_id))
    /\ UNCHANGED <<plans, nextUuid, now>>

\* plan.progress of the steps under study
ReadProgress(steps) ==
    snapshot' = <<Progress(steps)>>

(***************************************************************************)
(* The knowledge base (backend/app/services/knowledge_base.py, class       *)
(* KnowledgeBase) and its feedback table (database.py, kb_feedback).       *)
(*                                                                         *)
(* A Python str is a sequence of characters here, so that lower(), split() *)
(* and the substring test "in" are computed character by character.        *)
(***************************************************************************)
\* the characters str.split() splits on
Whitespace == {" ", "\t"}

\* the upper-case letters of the alphabet in use and their lower-case forms
Uppers ==
    <<"A", "B", "C", "D", "E", "F", "G", "H", "I", "J", "K", "L", "M",
      "N", "O", "P", "Q", "R", "S", "T", "U", "V", "W", "X", "Y", "Z">>
Lowers ==
    <<"a", "b", "c", "d", "e", "f", "g", "h", "i", "j", "k", "l", "m",
      "n", "o", "p", "q", "r", "s", "t", "u", "v", "w", "x", "y", "z">>

\* str.lower(), one character
LowerChar(c) ==
    IF \E k \in 1..Len(Uppers) : Uppers[k] = c
    THEN Lowers[CHOOSE k \in 1..Len(Uppers) : Uppers[k] = c]
    ELSE c

\* str.lower()
Lower(s) == [i \in 1..Len(s) |-> LowerChar(s[i])]

\* "sub in s" of two strings: sub occurs in s at some offset (the empty
\* string occurs in every string)
Contains(sub, s) ==
    \E i \in 0..(Len(s) - Len(sub)) : \A k \in 1..Len(sub) : s[i + k] = sub[k]

\* str.split(): the maximal runs of characters that are not whitespace
RECURSIVE SplitFrom(_, _, _)
SplitFrom(s, i, word) ==
    IF i > Len(s)
    THEN IF word = << >> THEN << >> ELSE <<word>>
    ELSE IF s[i] \in Whitespace
         THEN IF word = << >>
              THEN SplitFrom(s, i + 1, << >>)
              ELSE <<word>> \o SplitFrom(s, i + 1, << >>)
         ELSE SplitFrom(s, i + 1, Append(word, s[i]))

Split(s) == SplitFrom(s, 1, << >>)

\* the words the strings of the model are made of
W_net == <<"n", "e", "t">>
W_web == <<"w", "e", "b">>
W_slow == <<"s", "l", "o", "w">>
W_no == <<"n", "o">>
W_pc == <<"p", "c">>
W_cam == <<"c", "a", "m">>
W_is == <<"i", "s">>
W_down == <<"d", "o", "w", "n">>
W_Net == <<"N", "e", "t">>
W_NET == <<"N", "E", "T">>
W_No == <<"N", "o">>
W_PC == <<"P", "C">>
W_Pc == <<"P", "c">>
W_Web == <<"W", "e", "b">>
W_Slow == <<"S", "l", "o", "w">>
W_ne == <<"n", "e">>
W_tab == <<"w", "e", "b", "\t", "c", "a", "m">>
W_o == <<"o">>
W_fax == <<"f", "a", "x">>
Sp == <<" ">>

\* the catalog built by _init_default_knowledge, scaled down: capitalised
\* titles, lower-case keywords of one or two words, categories and keywords
\* shared by several problems; solutions is the number of solutions of the
\* problem
Catalog ==
    << [category |-> W_Net, title |-> W_Net \o Sp \o W_slow,
        description |-> W_Web \o Sp \o W_is \o Sp \o W_slow,
        keywords |-> <<W_net, W_slow, W_no \o Sp \o W_web>>,
        solutions |-> 2],
       [category |-> W_Net, title |-> W_No \o Sp \o W_web,
        description |-> W_Net \o Sp \o W_down,
        keywords |-> <<W_web, W_net>>,
        solutions |-> 2],
       [category |-> W_PC, title |-> W_PC \o Sp \o W_slow,
        description |-> W_Slow \o Sp \o W_pc,
        keywords |-> <<W_slow, W_pc>>,
        solutions |-> 2],
       [category |-> W_PC, title |-> W_Web \o Sp \o W_cam,
        description |-> W_No \o Sp \o W_cam,
        keywords |-> <<W_cam, W_web>>,
        solutions |-> 1] >>

\* self.problems in insertion order: the positions of the catalog
Problems == 1..Len(Catalog)

\* Optional[str] None for the category argument (no string has an element
\* of more than one character)
NoCategory == <<"None">>

\* the words a caller may put in a query, the empty word among them: a
\* query is words joined by single blanks, so that the empty word gives
\* leading, trailing and doubled blanks
WordPool ==
    << << >>, W_web, W_slow, W_NET, W_no, W_ne, W_pc, W_cam, W_tab, W_fax >>
RECURSIVE Joined(_)
Joined(words) ==
    IF Len(words) = 0 THEN << >>
    ELSE IF Len(words) = 1 THEN WordPool[words[1]]
         ELSE WordPool[words[1]] \o Sp \o Joined(Tail(words))
\* the titles of the catalog, which a caller may type as they are shown
Titles == { Catalog[i].title : i \in 1..Len(Catalog) }
Queries ==
    UNION { { Joined(words) : words \in [1..n -> 1..Len(WordPool)] } :
            n \in 0..MaxWords }
    \cup Titles
\* the category arguments: None, the empty string, categories of the catalog
\* in other letter cases, a category of no problem
Categories == {NoCategory, << >>, W_net, W_NET, W_Pc, W_cam}

\* the arguments of the read-only calls made next to the feedback: a query
\* of no match and a query that matches every problem of the catalog, the
\* second problem (whose first solution gets feedback) in the third place
KBQueries == {W_fax, W_o}
KBCategories == {NoCategory}

\* the score weights of search
TitleScore == 10
DescriptionScore == 5
KeywordScore == 3
WordScore == 2
\* "Skip short words": len(word) > 2
ShortWord == 2

\* "Check keywords": the loop over problem.keywords from position k on
RECURSIVE KeywordLoop(_, _, _)
KeywordLoop(query_lower, keywords, k) ==
    IF k > Len(keywords) THEN 0
    ELSE (IF \/ Contains(query_lower, Lower(keywords[k]))
             \/ Contains(Lower(keywords[k]), query_lower)
          THEN KeywordScore ELSE 0)
         + KeywordLoop(query_lower, keywords, k + 1)

\* the inner loop of "Check individual words": keywords that contain word
RECURSIVE WordKeywordLoop(_, _, _)
WordKeywordLoop(word, keywords, k) ==
    IF k > Len(keywords) THEN 0
    ELSE (IF Contains(word, Lower(keywords[k])) THEN WordScore ELSE 0)
         + WordKeywordLoop(word, keywords, k + 1)

\* WordLoop that takes every word, however short
RECURSIVE WordLoop_all(_, _, _)
WordLoop_all(problem, query_words, k) ==
    IF k > Len(query_words) THEN 0
    ELSE WordKeywordLoop(query_words[k], problem.keywords, 1)
         + (IF Contains(query_words[k], Lower(problem.title))
            THEN WordScore ELSE 0)
         + WordLoop_all(problem, query_words, k + 1)

\* "Check individual words in query": the loop over query_words from
\* position k on
RECURSIVE WordLoop(_, _, _)
WordLoop(problem, query_words, k) ==
    IF k > Len(query_words) THEN 0
    ELSE (IF Len(query_words[k]) > ShortWord
          THEN WordKeywordLoop(query_words[k], problem.keywords, 1)
               + (IF Contains(query_words[k], Lower(problem.title))
                  THEN WordScore ELSE 0)
          ELSE 0)
         + WordLoop(problem, query_words, k + 1)

\* MatchScore that looks for the lowered query in the title as it is written
MatchScore_rawtitle(problem, query_lower) ==
    (IF Contains(query_lower, problem.title) THEN TitleScore ELSE 0)
    + (IF Contains(query_lower, Lower(problem.description))
       THEN DescriptionScore ELSE 0)
    + KeywordLoop(query_lower, problem.keywords, 1)
    + WordLoop(problem, Split(query_lower), 1)

\* "Calculate match score" for one problem
MatchScore(problem, query_lower) ==
    (IF Contains(query_lower, Lower(problem.title)) THEN TitleScore ELSE 0)
    + (IF Contains(query_lower, Lower(problem.description))
       THEN DescriptionScore ELSE 0)
    + KeywordLoop(query_lower, problem.keywords, 1)
    + WordLoop(problem, Split(query_lower), 1)

\* "Filter by category if specified": the problem is not skipped.  None and
\* the empty string are both false in "if category and ..."
PassesFilter(problem, category) ==
    \/ category = NoCategory
    \/ category = << >>
    \/ Lower(problem.category) = Lower(category)

\* the loop over self.problems.values() from position i on: the results
\* appended, in encounter order
RECURSIVE MatchLoop(_, _, _)
MatchLoop(query_lower, category, i) ==
    IF i > Len(Catalog) THEN << >>
    ELSE LET score == MatchScore(Catalog[i], query_lower)
         IN  (IF PassesFilter(Catalog[i], category) /\ score > 0
              THEN << [problem |-> i, match_score |-> score] >>
              ELSE << >>)
             \o MatchLoop(query_lower, category, i + 1)

\* list.sort(key=..., reverse=True): the elements in descending order of
\* their keys, elements of equal keys in their order in seq (the sort is
\* stable, also with reverse=True).  Greater(a, b): the key of a is greater
\* than the key of b.
SortedDescending(seq, Greater(_, _)) ==
    LET Pos(i) ==
            1 + Cardinality({ j \in 1..Len(seq) : Greater(seq[j], seq[i]) })
              + Cardinality({ j \in 1..(i - 1) :
                                /\ ~Greater(seq[j], seq[i])
                                /\ ~Greater(seq[i], seq[j]) })
    IN  [p \in 1..Len(seq) |-> seq[CHOOSE i \in 1..Len(seq) : Pos(i) = p]]

\* SortResults by an ascending stable sort whose outcome is reversed: equal
\* scores come out in reverse encounter order
SortResults_reversed(results) ==
    LET asc == SortedDescending(results,
                   LAMBDA a, b : a.match_score < b.match_score)
    IN  [p \in 1..Len(asc) |-> asc[Len(asc) + 1 - p]]

\* "Sort by match score (highest first)"
SortResults(results) ==
    SortedDescending(results, LAMBDA a, b : a.match_score > b.match_score)

\* search(query, category): the list returned, each problem by its position
\* in the catalog with its match_score
SearchList(query, category) ==
    SortResults(MatchLoop(Lower(query), category, 1))

\* the lists search returns for the arguments of the read-only calls made
\* next to the feedback (search reads nothing but its arguments and the
\* catalog); @@ has TLC compute the function once, as a table
SearchTable ==
    [args \in KBQueries \X KBCategories |-> SearchList(args[1], args[2])]
    @@ << >>
SearchResults(query, category) ==
    IF <<query, category>> \in DOMAIN SearchTable
    THEN SearchTable[<<query, category>>]
    ELSE SearchList(query, category)

(***************************************************************************)
(* Solutions and their feedback counters.                                  *)
(***************************************************************************)
\* the solutions of the problems before position p of the catalog
RECURSIVE SolutionsBefore(_)
SolutionsBefore(p) ==
    IF p <= 1 THEN 0 ELSE SolutionsBefore(p - 1) + Catalog[p - 1].solutions

\* the ids of the solutions of problem p, in the order of problem.solutions:
\* _add_problem draws a fresh id for each solution, problem after problem
SolutionsOf(p) ==
    [k \in 1..Catalog[p].solutions |-> SolutionsBefore(p) + k]

\* self.solutions after _init_default_knowledge: every solution of the
\* catalog under its id, with the dataclass defaults success_count = 0 and
\* failure_count = 0
BootSolutions ==
    [id \in 1..SolutionsBefore(Len(Catalog) + 1) |->
        [problem_id |-> CHOOSE p \in Problems :
                            \E k \in 1..Catalog[p].solutions :
                                SolutionsOf(p)[k] = id,
         success_count |-> 0,
         failure_count |-> 0]]

\* a rational number num/den, den > 0 (Python computes the float nearest to
\* it), and its order
Ratio(num, den) == [num |-> num, den |-> den]
RatioGreater(a, b) == a.num * b.den > b.num * a.den
RatioAtLeast(a, b) == a.num * b.den >= b.num * a.den

\* SuccessRate that divides by the number of successes
SuccessRate_self(solution) ==
    IF solution.success_count > 0
    THEN Ratio(solution.success_count, solution.success_count)
    ELSE Ratio(0, 1)

\* Solution.success_rate
SuccessRate(solution) ==
    LET total == solution.success_count + solution.failure_count
    IN  IF total > 0 THEN Ratio(solution.success_count, total)
        ELSE Ratio(0, 1)

\* Counted that resets the successes when a failure is reported
Counted_reset(solution, success) ==
    IF success
    THEN [solution EXCEPT !.success_count = @ + 1]
    ELSE [solution EXCEPT !.failure_count = @ + 1, !.success_count = 0]

\* Counted that stores 1 instead of adding 1
Counted_set(solution, success) ==
    IF success
    THEN [solution EXCEPT !.success_count = 1]
    ELSE [solution EXCEPT !.failure_count = 1]

\* record_feedback's increment: success_count += 1 or failure_count += 1
Counted(solution, success) ==
    IF success
    THEN [solution EXCEPT !.success_count = @ + 1]
    ELSE [solution EXCEPT !.failure_count = @ + 1]

\* the kb_feedback table of a new database: no row
NoRows == << >>

\* DbRecord that inserts a row and leaves a row that exists as it is
DbRecord_insertonly(table, solution_id, success) ==
    IF solution_id \in DOMAIN table
    THEN table
    ELSE (solution_id :> [success_count |-> IF success THEN 1 ELSE 0,
                          failure_count |-> IF success THEN 0 ELSE 1])
         @@ table

\* db.record_solution_feedback: the row of the solution is incremented, or
\* inserted with the counts of this one feedback when there is none
DbRecord(table, solution_id, success) ==
    IF solution_id \in DOMAIN table
    THEN [table EXCEPT ![solution_id] = Counted(@, success)]
    ELSE (solution_id :> [success_count |-> IF success THEN 1 ELSE 0,
                          failure_count |-> IF success THEN 0 ELSE 1])
         @@ table

(***************************************************************************)
(* Return values of the knowledge base: ok is the bool record_feedback     *)
(* returns (has_matches for get_context_for_query), problems and solutions *)
(* are the lists returned, db tells whether record_solution_feedback was   *)
(* called and how it ended.                                                *)
(***************************************************************************)
KBRet(op, ok, problems, solutions_list, db_call) ==
    [op |-> op, ok |-> ok, problems |-> problems,
     solutions |-> solutions_list, db |-> db_call]

\* seq[:n]
Prefix(seq, n) == SubSeq(seq, 1, IF n < Len(seq) THEN n ELSE Len(seq))

\* a solution as to_dict() shows it in a result: its id, its problem and its
\* success_rate at the time of the call
SolutionView(id) ==
    [solution |-> id, problem |-> solutions[id].problem_id,
     success_rate |-> SuccessRate(solutions[id])]

\* the result lengths of get_context_for_query
TopProblems == 3
TopSolutions == 5

\* "Collect best solutions from top problems": the loop over top_problems
\* from position i on
RECURSIVE CollectLoop(_, _)
CollectLoop(top_problems, i) ==
    IF i > Len(top_problems) THEN << >>
    ELSE LET ids == SolutionsOf(top_problems[i].problem)
         IN  [k \in 1..Len(ids) |-> SolutionView(ids[k])]
             \o CollectLoop(top_problems, i + 1)

\* "Sort solutions by success rate" / "Sort by success rate"
SortByRate(views) ==
    SortedDescending(views,
        LAMBDA a, b : RatioGreater(a.success_rate, b.success_rate))

\* QuickLoop that wants the success rate above the threshold
RECURSIVE QuickLoop_strict(_, _, _)
QuickLoop_strict(min_success_rate, min_uses, id) ==
    IF id \notin DOMAIN solutions THEN << >>
    ELSE LET solution == solutions[id]
             total_uses == solution.success_count + solution.failure_count
         IN  (IF /\ total_uses >= min_uses
                 /\ RatioGreater(SuccessRate(solution), min_success_rate)
              THEN <<SolutionView(id)>> ELSE << >>)
             \o QuickLoop_strict(min_success_rate, min_uses, id + 1)

\* the loop of get_quick_solutions over self.solutions.values() from id on
RECURSIVE QuickLoop(_, _, _)
QuickLoop(min_success_rate, min_uses, id) ==
    IF id \notin DOMAIN solutions THEN << >>
    ELSE LET solution == solutions[id]
             total_uses == solution.success_count + solution.failure_count
         IN  (IF /\ total_uses >= min_uses
                 /\ RatioAtLeast(SuccessRate(solution), min_success_rate)
              THEN <<SolutionView(id)>> ELSE << >>)
             \o QuickLoop(min_success_rate, min_uses, id + 1)

(***************************************************************************)
(* Callers of the knowledge base.  The handlers of main.py are coroutines  *)
(* of one event loop: a handler runs from one await to the next without    *)
(* interleaving, and record_feedback, search, get_context_for_query and    *)
(* get_quick_solutions contain no await.  What interleaves are the         *)
(* requests: a feedback message sent by a caller waits until its handler   *)
(* runs, and the handlers of waiting messages run in any order.            *)
(***************************************************************************)
\* the sessions (WebSocket connections or REST clients) that send feedback
Callers == 1..MaxCallers
\* no message of the caller is waiting
NoRequest == [solution_id |-> -1, success |-> FALSE]
\* the solution ids a caller may name: the two solutions of the first
\* problem, the first solution of the second problem, and 0 for an id of no
\* solution
FeedbackIds ==
    {SolutionsOf(1)[1], SolutionsOf(1)[2], SolutionsOf(2)[1]} \cup {0}
\* the messages sent so far
TotalSent ==
    LET RECURSIVE Sum(_)
        Sum(ids) == IF ids = {} THEN 0
                    ELSE LET id == CHOOSE id \in ids : TRUE
                         IN  sent[id].yes + sent[id].no + Sum(ids \ {id})
    IN  Sum(FeedbackIds)

\* a caller sends {"type": "kb_feedback", ...} or posts to
\* /api/knowledge/solutions/{solution_id}/feedback.  Callers are alike: the
\* first one with no message waiting sends.
SendFeedback(c, solution_id, success) ==
    /\ pending[c] = NoRequest
    /\ \A d \in 1..(c - 1) : pending[d] # NoRequest
    /\ TotalSent < MaxFeedback
    /\ pending' = [pending EXCEPT
                      ![c] = [solution_id |-> solution_id,
                              success |-> success]]
    /\ sent' = [sent EXCEPT
                   ![solution_id] =
                       IF success THEN [@ EXCEPT !.yes = @ + 1]
                       ELSE [@ EXCEPT !.no = @ + 1]]
    /\ UNCHANGED <<solutions, kb_feedback, kbLast>>

\* RecordFeedback that undoes the increment when the database fails
RecordFeedback_rollback(solution_id, success, db_ok) ==
    IF solution_id \notin DOMAIN solutions
    THEN /\ kbLast' = KBRet("record_feedback", FALSE, << >>, << >>, "none")
         /\ UNCHANGED <<solutions, kb_feedback>>
    ELSE IF db_ok
         THEN /\ solutions' = [solutions EXCEPT
                      ![solution_id] = Counted(@, success)]
              /\ kb_feedback' = DbRecord(kb_feedback, solution_id, success)
              /\ kbLast' = KBRet("record_feedback", TRUE, << >>, << >>, "ok")
         ELSE /\ kbLast' = KBRet("record_feedback", FALSE, << >>, << >>,
                                "failed")
              /\ UNCHANGED <<solutions, kb_feedback>>

\* RecordFeedback that writes to the database before it looks the solution
\* up
RecordFeedback_persistfirst(solution_id, success, db_ok) ==
    /\ IF db_ok
       THEN kb_feedback' = DbRecord(kb_feedback, solution_id, success)
       ELSE UNCHANGED kb_feedback
    /\ IF solution_id \notin DOMAIN solutions
       THEN /\ kbLast' = KBRet("record_feedback", FALSE, << >>, << >>,
                               IF db_ok THEN "ok" ELSE "failed")
            /\ UNCHANGED solutions
       ELSE /\ solutions' = [solutions EXCEPT
                    ![solution_id] = Counted(@, success)]
            /\ kbLast' = KBRet("record_feedback", TRUE, << >>, << >>,
                               IF db_ok THEN "ok" ELSE "failed")

\* record_feedback(solution_id, success); db_ok tells whether
\* db.record_solution_feedback commits or raises (the table is then rolled
\* back and the exception caught)
RecordFeedback(solution_id, success, db_ok) ==
    IF solution_id \notin DOMAIN solutions
    THEN /\ kbLast' = KBRet("record_feedback", FALSE, << >>, << >>, "none")
         /\ UNCHANGED <<solutions, kb_feedback>>
    ELSE /\ solutions' = [solutions EXCEPT
                 ![solution_id] = Counted(@, success)]
         /\ IF db_ok
            THEN kb_feedback' = DbRecord(kb_feedback, solution_id, success)
            ELSE UNCHANGED kb_feedback
         /\ kbLast' = KBRet("record_feedback", TRUE, << >>, << >>,
                            IF db_ok THEN "ok" ELSE "failed")

\* the handler of the waiting message of caller c runs: record_feedback
\* returns and the reply is sent
HandleFeedback(c, db_ok) ==
    /\ pending[c] # NoRequest
    /\ RecordFeedback(pending[c].solution_id, pending[c].success, db_ok)
    /\ pending' = [pending EXCEPT ![c] = NoRequest]
    /\ UNCHANGED sent

\* Search that counts a use of the first solution of every search
Search_counting(qry, cat) ==
    /\ kbLast' = KBRet("search", TRUE, SearchResults(qry, cat), << >>, "none")
    /\ solutions' = [solutions EXCEPT ![SolutionsOf(1)[1]] = Counted(@, TRUE)]
    /\ UNCHANGED <<kb_feedback, pending, sent>>

\* search(query, category), called by search_kb
Search(qry, cat) ==
    /\ kbLast' = KBRet("search", TRUE, SearchResults(qry, cat), << >>, "none")
    /\ UNCHANGED <<solutions, kb_feedback, pending, sent>>

\* GetContextForQuery that leaves the collected solutions in the order of the
\* problems
GetContextForQuery_unsorted(qry) ==
    /\ LET matches == SearchResults(qry, NoCategory)
           top_problems == Prefix(matches, TopProblems)
           top_solutions == CollectLoop(top_problems, 1)
       IN  kbLast' = IF matches = << >>
                     THEN KBRet("get_context_for_query", FALSE, << >>, << >>,
                                "none")
                     ELSE KBRet("get_context_for_query", TRUE, top_problems,
                                Prefix(top_solutions, TopSolutions), "none")
    /\ UNCHANGED <<solutions, kb_feedback, pending, sent>>

\* get_context_for_query(query)
GetContextForQuery(qry) ==
    /\ LET matches == SearchResults(qry, NoCategory)
           top_problems == Prefix(matches, TopProblems)
           top_solutions == SortByRate(CollectLoop(top_problems, 1))
       IN  kbLast' = IF matches = << >>
                     THEN KBRet("get_context_for_query", FALSE, << >>, << >>,
                                "none")
                     ELSE KBRet("get_context_for_query", TRUE, top_problems,
                                Prefix(top_solutions, TopSolutions), "none")
    /\ UNCHANGED <<solutions, kb_feedback, pending, sent>>

\* get_quick_solutions(min_success_rate, min_uses)
GetQuickSolutions(min_success_rate, min_uses) ==
    /\ kbLast' = KBRet("get_quick_solutions", TRUE, << >>,
                       SortByRate(QuickLoop(min_success_rate, min_uses, 1)),
                       "none")
    /\ UNCHANGED <<solutions, kb_feedback, pending, sent>>

\* the thresholds of the get_quick_solutions calls made next to the
\* feedback: none, and thresholds that the feedback of a run can meet
MinRates == {Ratio(0, 1), Ratio(1, 2)}
MinUses == {0, 1}

(***************************************************************************)
(* detect_template.  The templates are those of _init_default_templates,   *)
(* scaled down: capitalised names of two or three words, lower-case        *)
(* keywords of one or two words, a word shared by the names, a name word   *)
(* that is a token of no keyword.                                          *)
(***************************************************************************)
W_fix == <<"f", "i", "x">>
W_Fix == <<"F", "i", "x">>
W_FIX == <<"F", "I", "X">>
W_box == <<"b", "o", "x">>
W_Box == <<"B", "o", "x">>
W_nets == <<"n", "e", "t", "s">>

\* self.templates in insertion order
Templates ==
    << [name |-> W_Fix \o Sp \o W_Net,
        keywords |-> <<W_net, W_no \o Sp \o W_web>>],
       [name |-> W_Fix \o Sp \o W_Slow \o Sp \o W_Box,
        keywords |-> <<W_slow, W_web \o Sp \o W_cam>>],
       [name |-> W_Fix \o Sp \o W_PC,
        keywords |-> <<W_pc, W_slow>>] >>

\* the words a user may put in a message, the empty word among them
MessagePoolWords ==
    << << >>, W_fix, W_FIX, W_box, W_net, W_nets, W_web, W_no, W_slow,
       W_cam, W_pc, W_fax >>
RECURSIVE JoinedOf(_, _)
JoinedOf(pool, words) ==
    IF Len(words) = 0 THEN << >>
    ELSE IF Len(words) = 1 THEN pool[words[1]]
         ELSE pool[words[1]] \o Sp \o JoinedOf(pool, Tail(words))
Messages ==
    UNION { { JoinedOf(MessagePoolWords, words) :
                words \in [1..n -> 1..Len(MessagePoolWords)] } :
            n \in 0..MaxWords }

\* the score weights and the threshold of detect_template
KeywordHit == 3
KeywordWordHit == 1
NameWordHit == 2
MinTemplateScore == 3
\* len(word) > 2
ShortToken == 2

\* the loop over the words of a keyword or of a name from position k on:
\* hit for each word longer than ShortToken found in the message
RECURSIVE TokenLoop(_, _, _, _)
TokenLoop(words, message_lower, hit, k) ==
    IF k > Len(words) THEN 0
    ELSE (IF Len(words[k]) > ShortToken /\ Contains(words[k], message_lower)
          THEN hit ELSE 0)
         + TokenLoop(words, message_lower, hit, k + 1)

\* "Check keywords": the loop over template.keywords from position k on
RECURSIVE TemplateKeywordLoop(_, _, _)
TemplateKeywordLoop(keywords, message_lower, k) ==
    IF k > Len(keywords) THEN 0
    ELSE (IF Contains(Lower(keywords[k]), message_lower)
          THEN KeywordHit ELSE 0)
         + TokenLoop(Split(Lower(keywords[k])), message_lower,
                     KeywordWordHit, 1)
         + TemplateKeywordLoop(keywords, message_lower, k + 1)

\* the score of one template
TemplateScore(template, message_lower) ==
    TemplateKeywordLoop(template.keywords, message_lower, 1)
    + TokenLoop(Split(Lower(template.name)), message_lower, NameWordHit, 1)

\* TemplateLoop that lets a later template of the same score take over
RECURSIVE TemplateLoop_last(_, _, _, _)
TemplateLoop_last(message_lower, i, best_match, best_score) ==
    IF i > Len(Templates)
    THEN [template |-> best_match, match_score |-> best_score]
    ELSE LET score == TemplateScore(Templates[i], message_lower)
         IN  IF score >= best_score
             THEN TemplateLoop_last(message_lower, i + 1, i, score)
             ELSE TemplateLoop_last(message_lower, i + 1, best_match,
                                    best_score)

\* the loop over self.templates.values() from position i on, with the best
\* match so far (0 for None) and its score
RECURSIVE TemplateLoop(_, _, _, _)
TemplateLoop(message_lower, i, best_match, best_score) ==
    IF i > Len(Templates)
    THEN [template |-> best_match, match_score |-> best_score]
    ELSE LET score == TemplateScore(Templates[i], message_lower)
         IN  IF score > best_score
             THEN TemplateLoop(message_lower, i + 1, i, score)
             ELSE TemplateLoop(message_lower, i + 1, best_match, best_score)

\* the None that detect_template returns
NoTemplate == [template |-> 0, match_score |-> 0]

\* detect_template(message): the template returned, by its position, with
\* its match_score
DetectResult(message) ==
    LET best == TemplateLoop(Lower(message), 1, 0, 0)
    IN  IF best.template # 0 /\ best.match_score >= MinTemplateScore
        THEN best ELSE NoTemplate

DetectTemplate(message) ==
    detected' = DetectResult(message)

(***************************************************************************)
(* The state after construction: TaskPlanner() has no plan, KnowledgeBase() *)
(* has its catalog with every counter 0 (the rows a former run of the      *)
(* process left in kb_feedback are under the ids of that run, so that      *)
(* _load_feedback_from_db restores nothing), the database is new.          *)
(***************************************************************************)
PlannerInit ==
    /\ plans = << >>
    /\ nextUuid = 1
    /\ now = 1
    /\ last = Call("init", RetNone)

KBInit ==
    /\ solutions = BootSolutions
    /\ kb_feedback = NoRows
    /\ pending = [c \in Callers |-> NoRequest]
    /\ sent = [id \in FeedbackIds |-> [yes |-> 0, no |-> 0]]
    /\ kbLast = KBRet("init", FALSE, << >>, << >>, "none")

\* no call under study
NoArgs ==
    /\ query_arg = << >>
    /\ category_arg = NoCategory
    /\ message_arg = << >>
    /\ detected = NoTemplate
    /\ steps_arg = << >>
    /\ snapshot = << >>

Init ==
    /\ PlannerInit
    /\ KBInit
    /\ NoArgs

(***************************************************************************)
(* The engine: any caller may issue any call with any ids.                 *)
(***************************************************************************)
Next ==
    \/ /\ \E session_id \in SessionInputs, steps \in BlueprintLists :
             CreatePlan(session_id, "T", "D", steps)
       /\ UNCHANGED <<kbVars, argVars>>
    \/ /\ \E plan_id \in PlanIds : StartPlan(plan_id)
       /\ UNCHANGED <<kbVars, argVars>>
    \/ /\ \E plan_id \in PlanIds : \E step_id \in StepIds(plan_id) :
             CompleteStep(plan_id, step_id)
       /\ UNCHANGED <<kbVars, argVars>>
    \/ /\ \E plan_id \in PlanIds : \E step_id \in StepIds(plan_id) :
             SkipStep(plan_id, step_id)
       /\ UNCHANGED <<kbVars, argVars>>
    \/ /\ \E plan_id \in PlanIds : \E step_id \in StepIds(plan_id) :
          \E error_message \in MessageInputs :
             FailStep(plan_id, step_id, error_message)
       /\ UNCHANGED <<kbVars, argVars>>

Spec == Init /\ [][Next]_vars

(***************************************************************************)
(* The knowledge base: callers send feedback, the handlers run in any      *)
(* order, and the read-only calls come in between.                         *)
(***************************************************************************)
NextKB ==
    \/ /\ \E c \in Callers, solution_id \in FeedbackIds, success \in BOOLEAN :
             SendFeedback(c, solution_id, success)
       /\ UNCHANGED <<plannerVars, argVars>>
    \/ /\ \E c \in Callers, db_ok \in BOOLEAN : HandleFeedback(c, db_ok)
       /\ UNCHANGED <<plannerVars, argVars>>
    \/ /\ \E qry \in KBQueries, cat \in KBCategories : Search(qry, cat)
       /\ UNCHANGED <<plannerVars, argVars>>
    \/ /\ \E qry \in KBQueries : GetContextForQuery(qry)
       /\ UNCHANGED <<plannerVars, argVars>>
    \/ /\ \E min_success_rate \in MinRates, min_uses \in MinUses :
             GetQuickSolutions(min_success_rate, min_uses)
       /\ UNCHANGED <<plannerVars, argVars>>

SpecKB == Init /\ [][NextKB]_vars

(***************************************************************************)
(* search as a function of its arguments: one call on a new knowledge      *)
(* base, for every query and category of the input sets.                   *)
(***************************************************************************)
InitSearch ==
    /\ PlannerInit
    /\ KBInit
    /\ query_arg \in Queries
    /\ category_arg \in Categories
    /\ message_arg = << >>
    /\ detected = NoTemplate
    /\ steps_arg = << >>
    /\ snapshot = << >>

NextSearch ==
    /\ Search(query_arg, category_arg)
    /\ UNCHANGED <<plannerVars, argVars>>

SpecSearch == InitSearch /\ [][NextSearch]_vars

(***************************************************************************)
(* detect_template as a function of its argument: one call on a new        *)
(* planner, for every message of the input set.                            *)
(***************************************************************************)
InitDetect ==
    /\ PlannerInit
    /\ KBInit
    /\ query_arg = << >>
    /\ category_arg = NoCategory
    /\ message_arg \in Messages
    /\ detected = NoTemplate
    /\ steps_arg = << >>
    /\ snapshot = << >>

NextDetect ==
    /\ DetectTemplate(message_arg)
    /\ UNCHANGED <<plannerVars, kbVars, searchVars, message_arg,
                   progressVars>>

SpecDetect == InitDetect /\ [][NextDetect]_vars

(***************************************************************************)
(* The plans of one sitting: two create_plan calls have been served, the   *)
(* first for session s1, before the clock of the run starts; the callers   *)
(* start the plans, work on their steps and ask for the active plan and    *)
(* the context of a session in any order.                                  *)
(***************************************************************************)
InitSession ==
    /\ \E session_id \in Sessions :
       \E first \in UNION { GoodLists(n) : n \in 0..MaxSessionSteps } :
       \E second \in UNION { GoodLists(n) : n \in 0..MaxSessionSteps } :
          /\ plans = << NewPlan(1, SessionPool[1], "T1", "D1", first, -2),
                        NewPlan(Len(first) + 2, session_id, "T2", "D2",
                                second, -1) >>
          /\ nextUuid = Len(first) + Len(second) + 3
          /\ last = Call("create_plan",
                         [RetNone EXCEPT !.ok = TRUE,
                                         !.plan = Len(first) + 2])
    /\ now = 1
    /\ KBInit
    /\ NoArgs

NextSession ==
    \/ /\ \E plan_id \in PlanIds : StartPlan(plan_id)
       /\ UNCHANGED <<kbVars, argVars>>
    \/ /\ \E plan_id \in PlanIds : \E step_id \in StepIds(plan_id) :
             CompleteStep(plan_id, step_id)
       /\ UNCHANGED <<kbVars, argVars>>
    \/ /\ \E plan_id \in PlanIds : \E step_id \in StepIds(plan_id) :
             SkipStep(plan_id, step_id)
       /\ UNCHANGED <<kbVars, argVars>>
    \/ /\ \E plan_id \in PlanIds : \E step_id \in StepIds(plan_id) :
             FailStep(plan_id, step_id, MessagePool[1])
       /\ UNCHANGED <<kbVars, argVars>>
    \/ /\ \E session_id \in Sessions : GetActivePlan(session_id)
       /\ UNCHANGED <<kbVars, argVars>>
    \/ /\ \E session_id \in Sessions : GetContextForSession(session_id)
       /\ UNCHANGED <<kbVars, argVars>>

SpecSession == InitSession /\ [][NextSession]_vars

(***************************************************************************)
(* progress as a function of the steps of a plan: one reading for every    *)
(* plan of the input set.  The steps that are completed come first (steps  *)
(* are completed in order), the step after them is in progress, failed,    *)
(* skipped or pending, and the rest is pending.                            *)
(***************************************************************************)
StepsOf(total, completed, status) ==
    [i \in 1..total |->
        [status |-> IF i <= completed THEN COMPLETED
                    ELSE IF i = completed + 1 THEN status
                    ELSE PENDING]]

StepLists ==
    { StepsOf(total, completed, status) :
        total \in 0..MaxTotal, completed \in 0..MaxTotal,
        status \in {IN_PROGRESS, FAILED, SKIPPED, PENDING} }

InitProgress ==
    /\ PlannerInit
    /\ KBInit
    /\ query_arg = << >>
    /\ category_arg = NoCategory
    /\ message_arg = << >>
    /\ detected = NoTemplate
    /\ steps_arg \in StepLists
    /\ snapshot = << >>

NextProgress ==
    /\ ReadProgress(steps_arg)
    /\ UNCHANGED <<plannerVars, kbVars, searchVars, detectVars, steps_arg>>

SpecProgress == InitProgress /\ [][NextProgress]_vars

(***************************************************************************)
(* The service as the endpoints of main.py use it: a plan has been created *)
(* for a session; callers start it and complete its steps, one caller      *)
(* rates a solution, and the calls that only read (search,                 *)
(* get_context_for_query, get_quick_solutions, detect_template,            *)
(* get_active_plan, get_context_for_session) come in between.              *)
(***************************************************************************)
\* the chat messages handed to detect_template: one that names the first
\* template and one that names none
InboundMessages == {W_fix \o Sp \o W_net, W_fax}

\* the solution the caller rates, and an id of no solution
RatedIds == {SolutionsOf(1)[1], 0}

InitReads ==
    /\ \E steps \in GoodLists(MaxSessionSteps) :
          /\ plans = << NewPlan(1, SessionPool[1], "T1", "D1", steps, -1) >>
          /\ nextUuid = Len(steps) + 2
          /\ last = Call("create_plan",
                         [RetNone EXCEPT !.ok = TRUE, !.plan = 1])
    /\ now = 1
    /\ KBInit
    /\ NoArgs

NextReads ==
    \/ /\ \E plan_id \in PlanIds : StartPlan(plan_id)
       /\ UNCHANGED <<kbVars, argVars>>
    \/ /\ \E plan_id \in PlanIds : \E step_id \in StepIds(plan_id) :
             CompleteStep(plan_id, step_id)
       /\ UNCHANGED <<kbVars, argVars>>
    \/ /\ \E solution_id \in RatedIds, success \in BOOLEAN :
             /\ solution_id \in DOMAIN solutions
                => solutions[solution_id].success_count
                   + solutions[solution_id].failure_count < MaxFeedback
             /\ RecordFeedback(solution_id, success, TRUE)
       /\ UNCHANGED <<pending, sent, plannerVars, argVars>>
    \/ /\ \E qry \in KBQueries, cat \in KBCategories : Search(qry, cat)
       /\ UNCHANGED <<plannerVars, argVars>>
    \/ /\ \E qry \in KBQueries : GetContextForQuery(qry)
       /\ UNCHANGED <<plannerVars, argVars>>
    \/ /\ \E min_success_rate \in MinRates, min_uses \in MinUses :
             GetQuickSolutions(min_success_rate, min_uses)
       /\ UNCHANGED <<plannerVars, argVars>>
    \/ /\ \E message \in InboundMessages : DetectTemplate(message)
       /\ UNCHANGED <<plannerVars, kbVars, searchVars, message_arg,
                      progressVars>>
    \/ /\ \E session_id \in Sessions : GetActivePlan(session_id)
       /\ UNCHANGED <<kbVars, argVars>>
    \/ /\ \E session_id \in Sessions : GetContextForSession(session_id)
       /\ UNCHANGED <<kbVars, argVars>>

SpecReads == InitReads /\ [][NextReads]_vars

(***************************************************************************)
(* A client that drives a plan: a plan of 0..MaxSteps steps has been       *)
(* created; the client starts it, asks for the active plan of a session,   *)
(* and sends complete_step or skip_step with the current_step it was told, *)
(* again and again until the plan is no longer in progress.                *)
(***************************************************************************)
InitDrive ==
    /\ \E session_id \in Sessions :
       \E steps \in UNION { GoodLists(n) : n \in 0..MaxSteps } :
          /\ plans = << NewPlan(1, session_id, "T1", "D1", steps, -1) >>
          /\ nextUuid = Len(steps) + 2
          /\ last = Call("create_plan",
                         [RetNone EXCEPT !.ok = TRUE, !.plan = 1])
    /\ now = 1
    /\ KBInit
    /\ NoArgs

\* the client completes the current step of a plan in progress
DriveComplete ==
    /\ \E i \in 1..Len(plans) :
          /\ plans[i].status = IN_PROGRESS
          /\ CompleteStep(plans[i].id, CurrentStep(plans[i]))
    /\ UNCHANGED <<kbVars, argVars>>

\* the client skips the current step of a plan in progress
DriveSkip ==
    /\ \E i \in 1..Len(plans) :
          /\ plans[i].status = IN_PROGRESS
          /\ SkipStep(plans[i].id, CurrentStep(plans[i]))
    /\ UNCHANGED <<kbVars, argVars>>

NextDrive ==
    \/ /\ \E plan_id \in PlanIds : StartPlan(plan_id)
       /\ UNCHANGED <<kbVars, argVars>>
    \/ DriveComplete
    \/ DriveSkip
    \/ /\ \E session_id \in Sessions : GetActivePlan(session_id)
       /\ UNCHANGED <<kbVars, argVars>>
    \/ /\ \E session_id \in Sessions : GetContextForSession(session_id)
       /\ UNCHANGED <<kbVars, argVars>>

\* the client does not stop while a plan is in progress: a step operation
\* that stays possible is sent
FairDrive == WF_vars(DriveComplete \/ DriveSkip)

SpecDrive == InitDrive /\ [][NextDrive]_vars /\ FairDrive

(***************************************************************************)
(* Runs of the process on one database: a caller rates the first solution  *)
(* of the catalog in the run that is up (or names the id that solution had *)
(* in the run before), and the process is restarted: KnowledgeBase() is    *)
(* constructed again, which builds the catalog under ids drawn afresh by   *)
(* uuid.uuid4() and then reads the rows of kb_feedback.                    *)
(***************************************************************************)
\* the number of solutions of the catalog
CatalogSize == Len(BootSolutions)

\* the ids of a run are the CatalogSize ids after base; the base of the run
\* that is up
RunBase ==
    (CHOOSE id \in DOMAIN solutions : \A j \in DOMAIN solutions : id <= j) - 1

\* _init_default_knowledge in a run whose ids start after base: the catalog
\* solutions in the same order, each under a fresh id, counters 0
BootAt(base) ==
    [id \in (base + 1)..(base + CatalogSize) |-> BootSolutions[id - base]]

\* _load_feedback_from_db: the counters of every row whose solution_id is a
\* key of self.solutions are copied; the other rows are passed over
LoadFeedback(booted, table) ==
    [id \in DOMAIN booted |->
        IF id \in DOMAIN table
        THEN [booted[id] EXCEPT !.success_count = table[id].success_count,
                                !.failure_count = table[id].failure_count]
        ELSE booted[id]]

\* the process is stopped and started: the objects in memory are built
\* anew, the table is what it was
Restart ==
    /\ RunBase < MaxRestarts * CatalogSize
    /\ solutions' = LoadFeedback(BootAt(RunBase + CatalogSize), kb_feedback)
    /\ kbLast' = KBRet("init", FALSE, << >>, << >>, "none")
    /\ pending' = [c \in Callers |-> NoRequest]
    /\ plans' = << >>
    /\ last' = Call("init", RetNone)
    /\ UNCHANGED <<kb_feedback, sent, nextUuid, now, argVars>>

\* record_feedback on the first solution of the catalog under its id of
\* this run (back = 0) or of the run before (back = 1)
RateFirst(back, success) ==
    /\ LET solution_id == RunBase + 1 - back * CatalogSize
       IN  /\ solution_id \in DOMAIN solutions
              => solutions[solution_id].success_count
                 + solutions[solution_id].failure_count < MaxFeedback
           /\ RecordFeedback(solution_id, success, TRUE)
    /\ UNCHANGED <<pending, sent, plannerVars, argVars>>

NextRestart ==
    \/ \E back \in {0, 1}, success \in BOOLEAN : RateFirst(back, success)
    \/ Restart

SpecRestart == Init /\ [][NextRestart]_vars

(***************************************************************************)
(* Vocabulary of the properties.  A property about a call names the call   *)
(* by its action: StartPlan(p) is true of a step exactly when the step is  *)
(* the call start_plan(p).                                                 *)
(***************************************************************************)
PlanIdx == 1..Len(plans)
StepIdx(plan) == 1..Len(plan.steps)

Terminal(plan) == plan.status \in {COMPLETED, FAILED}

\* the step is one of the three step operations, on plan_id and step_id
StepOp(plan_id, step_id) ==
    \/ CompleteStep(plan_id, step_id)
    \/ SkipStep(plan_id, step_id)
    \/ \E error_message \in ErrorMessages :
          FailStep(plan_id, step_id, error_message)

\* plan_id names a registered plan / step_id names a step of that plan
IsPlanId(plan_id) == \E i \in PlanIdx : plans[i].id = plan_id
IsStepOf(plan_id, step_id) ==
    \E i \in PlanIdx :
        /\ plans[i].id = plan_id
        /\ \E j \in StepIdx(plans[i]) : plans[i].steps[j].id = step_id

\* the statuses of the steps of a plan, by position
StepStatuses(plan) == [j \in StepIdx(plan) |-> plan.steps[j].status]
\* the positions of the steps in_progress
InProgressSteps(plan) ==
    { j \in StepIdx(plan) : plan.steps[j].status = IN_PROGRESS }

\* a plan as create_plan leaves it
Fresh(plan) ==
    /\ plan.status = CREATED
    /\ \A j \in StepIdx(plan) : plan.steps[j].status = PENDING

\* a started plan whose steps before position k are completed, whose step k
\* is in_progress and whose later steps are pending
InOrderAt(plan, k) ==
    /\ plan.status = IN_PROGRESS
    /\ k \in StepIdx(plan)
    /\ \A j \in StepIdx(plan) :
          plan.steps[j].status =
              IF j < k THEN COMPLETED
              ELSE IF j = k THEN IN_PROGRESS ELSE PENDING

(***************************************************************************)
(* C1: for a plan with N >= 1 steps, start_plan on the fresh plan makes    *)
(* step 1 the only in_progress step, and complete_step on the steps in     *)
(* order keeps the plan in_progress with step k completed and step k+1 the *)
(* only in_progress step for k < N, while the N-th call completes the plan *)
(* with completed_at set and returns next_step None and is_complete true.  *)
(***************************************************************************)
C1_InOrderCompletion ==
    [][ \A i \in PlanIdx :
          LET plan == plans[i]
              n == Len(plan.steps)
          IN  /\ (Fresh(plan) /\ n >= 1 /\ StartPlan(plan.id))
                    => /\ InOrderAt(plans'[i], 1)
                       /\ InProgressSteps(plans'[i]) = {1}
              /\ \A k \in 1..n :
                    (InOrderAt(plan, k)
                        /\ CompleteStep(plan.id, plan.steps[k].id))
                    => /\ last'.ret.ok
                       /\ plans'[i].steps[k].status = COMPLETED
                       /\ IF k < n
                          THEN /\ InOrderAt(plans'[i], k + 1)
                               /\ InProgressSteps(plans'[i]) = {k + 1}
                               /\ last'.ret.next_step = plan.steps[k + 1].id
                               /\ ~last'.ret.is_complete
                          ELSE /\ plans'[i].status = COMPLETED
                               /\ plans'[i].completed_at # None
                               /\ \A j \in 1..n :
                                     plans'[i].steps[j].status = COMPLETED
                               /\ last'.ret.next_step = None
                               /\ last'.ret.is_complete
      ]_vars

\* the first of the in-order calls on a started plan of two or more steps has
\* just returned: step 1 is completed, step 2 was started by the call and is
\* the only step in_progress, the plan is still in_progress
C1_Witness ==
    \E i \in PlanIdx :
        LET plan == plans[i]
            n == Len(plan.steps)
        IN  /\ n >= 2
            /\ last.op = "complete_step"
            /\ last.ret.ok
            /\ last.ret.plan = plan.id
            /\ last.ret.step = plan.steps[1].id
            /\ last.ret.next_step = plan.steps[2].id
            /\ ~last.ret.is_complete
            /\ InOrderAt(plan, 2)
            /\ plan.completed_at = None
            /\ plan.steps[1].started_at = plan.started_at
            /\ plan.steps[1].started_at < plan.steps[1].completed_at
            /\ plan.steps[1].completed_at = plan.steps[2].started_at

(***************************************************************************)
(* C2: once a plan's status is completed or failed, no call changes that   *)
(* plan's status again.                                                    *)
(***************************************************************************)
C2_TerminalStatusIsFinal ==
    [][ \A i \in PlanIdx :
          Terminal(plans[i]) => plans'[i].status = plans[i].status ]_vars

(***************************************************************************)
(* C3: every plan has at most one step in_progress, and a completed or     *)
(* failed plan has none.                                                   *)
(***************************************************************************)
C3_AtMostOneInProgress ==
    \A i \in PlanIdx :
        /\ Cardinality(InProgressSteps(plans[i])) <= 1
        /\ Terminal(plans[i]) => InProgressSteps(plans[i]) = {}

(***************************************************************************)
(* C4: complete_step, fail_step and skip_step on a plan that is completed  *)
(* or failed return None and leave the plan's status and the status of     *)
(* every step unchanged.                                                   *)
(***************************************************************************)
C4_StepOpsRejectedOnTerminalPlan ==
    [][ \A i \in PlanIdx : \A step_id \in StepIds(plans[i].id) :
          (Terminal(plans[i]) /\ StepOp(plans[i].id, step_id))
          => /\ ~last'.ret.ok
             /\ plans'[i].status = plans[i].status
             /\ StepStatuses(plans'[i]) = StepStatuses(plans[i]) ]_vars

(***************************************************************************)
(* C5: a plan becomes completed or failed only from in_progress, and       *)
(* becomes in_progress only from created.                                  *)
(***************************************************************************)
C5_PlanStatusForwardOnly ==
    [][ \A i \in PlanIdx :
          plans'[i].status # plans[i].status
          => \/ /\ plans[i].status = CREATED
                /\ plans'[i].status = IN_PROGRESS
             \/ /\ plans[i].status = IN_PROGRESS
                /\ plans'[i].status \in {COMPLETED, FAILED} ]_vars

(***************************************************************************)
(* C6: a step that is completed, failed or skipped never changes status    *)
(* again, and a step never goes from in_progress back to pending.          *)
(***************************************************************************)
C6_StepStatusForwardOnly ==
    [][ \A i \in PlanIdx : \A j \in StepIdx(plans[i]) :
          LET old == plans[i].steps[j].status
              new == plans'[i].steps[j].status
          IN  /\ old \in {COMPLETED, FAILED, SKIPPED} => new = old
              /\ old = IN_PROGRESS => new # PENDING ]_vars

(***************************************************************************)
(* C7: start_plan on an id that names no plan, or on a plan whose status   *)
(* is not created, returns None and changes nothing (status, started_at    *)
(* and every step of every plan are as before).                            *)
(***************************************************************************)
C7_StartPlanRejected ==
    [][ \A plan_id \in PlanIds :
          ( /\ ~ \E i \in PlanIdx : /\ plans[i].id = plan_id
                                    /\ plans[i].status = CREATED
            /\ StartPlan(plan_id) )
          => /\ ~last'.ret.ok
             /\ plans' = plans ]_vars

\* start_plan has just returned None although a plan is registered: no plan
\* is in created any more, so the call named a started plan (a second
\* start_plan) or no plan at all
C7_Witness ==
    /\ last.op = "start_plan"
    /\ ~last.ret.ok
    /\ Len(plans) >= 1
    /\ \A i \in PlanIdx :
          /\ plans[i].status = IN_PROGRESS
          /\ plans[i].started_at # None
          /\ InProgressSteps(plans[i]) = {1}

(***************************************************************************)
(* C8: fail_step on an existing step of a plan sets that step to failed    *)
(* with the given error message and completed_at, sets the plan to failed, *)
(* and changes the status of no other step (no next step is started).      *)
(***************************************************************************)
C8_FailStepFailsPlan ==
    [][ \A i \in PlanIdx : \A j \in StepIdx(plans[i]) :
        \A error_message \in ErrorMessages :
          FailStep(plans[i].id, plans[i].steps[j].id, error_message)
          => /\ last'.ret.ok
             /\ plans'[i].steps[j].status = FAILED
             /\ plans'[i].steps[j].error_message = error_message
             /\ plans'[i].steps[j].completed_at = now
             /\ plans'[i].steps[j].completed_at # None
             /\ plans'[i].status = FAILED
             /\ \A k \in StepIdx(plans[i]) \ {j} :
                   plans'[i].steps[k].status = plans[i].steps[k].status
      ]_vars

\* fail_step has just failed the first step of a started plan whose second
\* step is still pending
C8_Witness ==
    \E i \in PlanIdx :
        /\ last.op = "fail_step"
        /\ last.ret.ok
        /\ last.ret.plan = plans[i].id
        /\ Len(plans[i].steps) >= 2
        /\ last.ret.step = plans[i].steps[1].id
        /\ plans[i].started_at # None
        /\ plans[i].status = FAILED
        /\ plans[i].steps[1].status = FAILED
        /\ plans[i].steps[1].error_message \in ErrorMessages
        /\ plans[i].steps[1].completed_at > plans[i].started_at
        /\ plans[i].steps[2].status = PENDING

(***************************************************************************)
(* C9: start_plan, complete_step, fail_step and skip_step with a plan id   *)
(* that names no plan, or (the step operations) with a step id that is not *)
(* the id of a step of the named plan, return None and change no plan and  *)
(* no step.                                                                *)
(***************************************************************************)
C9_NotFoundIsNoOp ==
    [][ LET NoOp == ~last'.ret.ok /\ plans' = plans
        IN  \/ NoOp
            \/ \A plan_id \in PlanIds :
                  /\ (~IsPlanId(plan_id) /\ StartPlan(plan_id)) => NoOp
                  /\ \A step_id \in StepIds(plan_id) :
                        (~IsStepOf(plan_id, step_id)
                            /\ StepOp(plan_id, step_id)) => NoOp ]_vars

\* a step operation has just returned None where two plans with steps are
\* registered, so that step ids of another plan can be named
C9_Witness ==
    /\ last.op \in {"complete_step", "fail_step", "skip_step"}
    /\ ~last.ret.ok
    /\ Len(plans) >= 2
    /\ \A i \in PlanIdx : Len(plans[i].steps) >= 1

(***************************************************************************)
(* C10: create_plan with N well-formed blueprints registers one new plan,  *)
(* with status created, started_at and completed_at None, and exactly N    *)
(* steps, all pending, with order 1..N and the blueprints' titles and      *)
(* descriptions in blueprint order; the plans registered before are        *)
(* unchanged.                                                              *)
(***************************************************************************)
C10_CreatePlan ==
    [][ \A session_id \in Sessions, blueprints \in BlueprintLists :
          ( /\ \A k \in 1..Len(blueprints) :
                  DOMAIN blueprints[k] = {"title", "description"}
            /\ CreatePlan(session_id, "T", "D", blueprints) )
          => LET n == Len(blueprints)
                 new == plans'[Len(plans')]
             IN  /\ last'.ret.ok
                 /\ Len(plans') = Len(plans) + 1
                 /\ \A i \in PlanIdx : /\ plans'[i] = plans[i]
                                       /\ plans[i].id # new.id
                 /\ new.id = last'.ret.plan
                 /\ new.session_id = session_id
                 /\ new.status = CREATED
                 /\ new.started_at = None
                 /\ new.completed_at = None
                 /\ Len(new.steps) = n
                 /\ \A k \in 1..n :
                       /\ new.steps[k].status = PENDING
                       /\ new.steps[k].order = k
                       /\ new.steps[k].plan_id = new.id
                       /\ new.steps[k].title = blueprints[k].title
                       /\ new.steps[k].description = blueprints[k].description
      ]_vars

\* create_plan has just registered a second plan, of two steps, next to a
\* plan that had already been started
C10_Witness ==
    /\ last.op = "create_plan"
    /\ last.ret.ok
    /\ Len(plans) = 2
    /\ plans[2].id = last.ret.plan
    /\ Len(plans[2].steps) = 2
    /\ plans[1].status # CREATED
    /\ Fresh(plans[2])

(***************************************************************************)
(* C11: skip_step and complete_step on the same step of the same state     *)
(* give the same state but for the status of the target step, skipped      *)
(* instead of completed: the same next step is started, the plan has the   *)
(* same status, and next_step and is_complete of the two results agree; a  *)
(* started plan whose steps are all skipped in order ends completed.       *)
(***************************************************************************)
\* a started plan whose steps before position k are skipped, whose step k is
\* in_progress and whose later steps are pending
SkippedInOrderAt(plan, k) ==
    /\ plan.status = IN_PROGRESS
    /\ k \in StepIdx(plan)
    /\ \A j \in StepIdx(plan) :
          plan.steps[j].status =
              IF j < k THEN SKIPPED
              ELSE IF j = k THEN IN_PROGRESS ELSE PENDING

C12_MalformedCreatesNothing ==
    [][ \A session_id \in Sessions, blueprints \in BlueprintLists :
          ( /\ \E k \in 1..Len(blueprints) :
                  \/ "title" \notin DOMAIN blueprints[k]
                  \/ "description" \notin DOMAIN blueprints[k]
            /\ CreatePlan(session_id, "T", "D", blueprints) )
          => /\ ~last'.ret.ok
             /\ plans' = plans
             /\ Len(plans') = Len(plans) ]_vars

\* create_plan has just failed where a started plan of two steps is
\* registered: that plan is the only one, as before the call
C12_Witness ==
    /\ last.op = "create_plan"
    /\ ~last.ret.ok
    /\ Len(plans) = 1
    /\ Len(plans[1].steps) = 2
    /\ InOrderAt(plans[1], 1)

(***************************************************************************)
(* Vocabulary of the properties of the knowledge base.                     *)
(***************************************************************************)
\* the feedback messages on solution id with outcome success that wait for
\* their handler
Waiting(id, success) ==
    Cardinality({ c \in Callers :
                    pending[c] = [solution_id |-> id, success |-> success] })

\* the record_feedback(id, success) calls made so far: the messages sent
\* whose handler has run
Called(id, success) ==
    (IF success THEN sent[id].yes ELSE sent[id].no) - Waiting(id, success)

\* no feedback message waits
Quiet == \A c \in Callers : pending[c] = NoRequest

\* the handler of a waiting message of caller c on solution id runs
Handles(c, id) ==
    /\ pending[c] # NoRequest
    /\ pending[c].solution_id = id
    /\ \E db_ok \in BOOLEAN : HandleFeedback(c, db_ok)

(***************************************************************************)
(* C13: for a solution with no prior feedback, after n calls               *)
(* record_feedback(id, true) and m calls record_feedback(id, false) in any *)
(* order, success_count = n, failure_count = m and success_rate = n/(n+m); *)
(* success_rate is 0 when n + m = 0 and always lies in [0, 1]; the         *)
(* counters of every other solution are unchanged by a call.               *)
(***************************************************************************)
C13_CountsAndRate ==
    /\ [](\A id \in DOMAIN solutions :
            LET n == IF id \in FeedbackIds THEN Called(id, TRUE) ELSE 0
                m == IF id \in FeedbackIds THEN Called(id, FALSE) ELSE 0
                rate == SuccessRate(solutions[id])
            IN  /\ solutions[id].success_count = n
                /\ solutions[id].failure_count = m
                /\ rate.den > 0
                /\ IF n + m = 0 THEN rate.num = 0
                   ELSE rate.num * (n + m) = n * rate.den
                /\ 0 <= rate.num
                /\ rate.num <= rate.den)
    /\ [][ \A c \in Callers : \A id \in FeedbackIds :
             Handles(c, id)
             => \A other \in DOMAIN solutions \ {id} :
                   solutions'[other] = solutions[other] ]_vars

\* a solution has got one feedback of each outcome, no message waits, and
\* another solution has got feedback too
C13_Witness ==
    /\ Quiet
    /\ kbLast.op = "record_feedback"
    /\ \E id \in DOMAIN solutions :
          /\ solutions[id].success_count = 1
          /\ solutions[id].failure_count = 1
          /\ SuccessRate(solutions[id]) = Ratio(1, 2)
          /\ sent[id] = [yes |-> 1, no |-> 1]

(***************************************************************************)
(* C14: after bootstrap no operation decreases or resets a solution's      *)
(* success_count or failure_count: across any sequence of record_feedback, *)
(* search, get_context_for_query and get_quick_solutions calls both        *)
(* counters are non-decreasing.                                            *)
(***************************************************************************)
C14_CountersNeverDecrease ==
    [][ \A id \in DOMAIN solutions :
          /\ id \in DOMAIN solutions'
          /\ solutions'[id].success_count >= solutions[id].success_count
          /\ solutions'[id].failure_count >= solutions[id].failure_count
      ]_vars

\* a read-only call has just returned where a solution has got a success
\* and then a failure
C14_Witness ==
    /\ kbLast.op \in {"search", "get_context_for_query",
                      "get_quick_solutions"}
    /\ \E id \in DOMAIN solutions :
          /\ solutions[id].success_count >= 1
          /\ solutions[id].failure_count >= 1

(***************************************************************************)
(* C15: feedback increments are not lost under concurrent callers: when    *)
(* several sessions call record_feedback on the same solution id           *)
(* concurrently, the final success_count + failure_count is the initial    *)
(* total (0) plus the number of calls, for every interleaving of the       *)
(* handlers.                                                               *)
(***************************************************************************)
C15_NoLostFeedback ==
    \A id \in FeedbackIds \cap DOMAIN solutions :
        LET total == solutions[id].success_count
                     + solutions[id].failure_count
        IN  /\ total = Called(id, TRUE) + Called(id, FALSE)
            /\ Quiet => total = sent[id].yes + sent[id].no

\* two callers had a message on the same solution waiting at once: the
\* handler of the first has run and counted it, the message of the second
\* still waits (a caller sends only when the callers before it wait)
C15_Witness ==
    \E id \in FeedbackIds \cap DOMAIN solutions :
        /\ pending[1] = NoRequest
        /\ pending[2] # NoRequest
        /\ pending[2].solution_id = id
        /\ kbLast.op = "record_feedback"
        /\ sent[id].yes + sent[id].no = 2
        /\ solutions[id].success_count + solutions[id].failure_count = 1

(***************************************************************************)
(* C16: step-transition operations on the same plan are serialized: for    *)
(* any concurrent start_plan / complete_step / fail_step / skip_step       *)
(* requests on one plan id, the plan state is the one produced by running  *)
(* the operations one after another in some order; no request observes or  *)
(* leaves a partially applied transition.                                  *)
(*                                                                         *)
(* The requests are handled by coroutines of one event loop and the four   *)
(* operations contain no await, so a behaviour is a sequence of whole      *)
(* calls, in any order of the requests.  Every state a request can observe *)
(* carries no half of a transition, and every step that changes the plans  *)
(* applies one whole transition to one plan.                               *)
(***************************************************************************)
\* no transition is half applied in the plan
NoPartialTransition(plan) ==
    /\ plan.status = IN_PROGRESS
       => /\ plan.started_at # None
          /\ Len(plan.steps) > 0 => plan.steps[1].status # PENDING
    /\ plan.status = COMPLETED => plan.completed_at # None
    /\ \A j \in StepIdx(plan) :
          LET step == plan.steps[j]
          IN  /\ step.status = IN_PROGRESS => step.started_at # None
              /\ step.status \in {COMPLETED, SKIPPED, FAILED}
                 => step.completed_at # None
              /\ step.status = FAILED
                 => step.error_message \in ErrorMessages
              /\ (step.status \in {COMPLETED, SKIPPED} /\ j < Len(plan.steps))
                 => plan.steps[j + 1].status # PENDING

\* the plans one whole transition at time t makes of the plan
WholeTransitions(plan, t) ==
    {StartedPlan(plan, t)}
    \cup { Advance(MarkStep(plan, j, status, t), j, t) :
             j \in StepIdx(plan), status \in {COMPLETED, SKIPPED} }
    \cup { FailedPlan(plan, j, error_message, t) :
             j \in StepIdx(plan), error_message \in ErrorMessages }

C17_DbFailureKeepsIncrement ==
    [][ \A c \in Callers :
          ( /\ pending[c] # NoRequest
            /\ pending[c].solution_id \in DOMAIN solutions
            /\ HandleFeedback(c, FALSE) )
          => LET id == pending[c].solution_id
                 before == solutions[id]
                 after == solutions'[id]
             IN  /\ kbLast'.op = "record_feedback"
                 /\ kbLast'.db = "failed"
                 /\ kbLast'.ok
                 /\ pending'[c] = NoRequest
                 /\ kb_feedback' = kb_feedback
                 /\ IF pending[c].success
                    THEN /\ after.success_count = before.success_count + 1
                         /\ after.failure_count = before.failure_count
                    ELSE /\ after.failure_count = before.failure_count + 1
                         /\ after.success_count = before.success_count
      ]_vars

\* record_feedback has returned True although the database failed: the
\* solution has its feedback counted in memory and no row in the table
C17_Witness ==
    /\ kbLast.op = "record_feedback"
    /\ kbLast.db = "failed"
    /\ kbLast.ok
    /\ \E id \in DOMAIN solutions :
          /\ solutions[id].success_count + solutions[id].failure_count = 1
          /\ sent[id].yes + sent[id].no = 1
          /\ id \notin DOMAIN kb_feedback

(***************************************************************************)
(* C18: record_feedback with a solution id that is not in the catalog      *)
(* returns False (the not-found result), changes no solution's counters    *)
(* and makes no call to the database.                                      *)
(***************************************************************************)
C18_UnknownIdChangesNothing ==
    [][ \A c \in Callers : \A db_ok \in BOOLEAN :
          ( /\ pending[c] # NoRequest
            /\ pending[c].solution_id \notin DOMAIN solutions
            /\ HandleFeedback(c, db_ok) )
          => /\ kbLast'.op = "record_feedback"
             /\ ~kbLast'.ok
             /\ kbLast'.db = "none"
             /\ solutions' = solutions
             /\ kb_feedback' = kb_feedback
      ]_vars

\* record_feedback has returned False for an id of no solution, after a
\* feedback on a solution was counted and stored
C18_Witness ==
    /\ kbLast.op = "record_feedback"
    /\ ~kbLast.ok
    /\ kbLast.db = "none"
    /\ \E id \in FeedbackIds \ DOMAIN solutions : sent[id].yes + sent[id].no = 1
    /\ \E id \in DOMAIN solutions :
          /\ solutions[id].success_count = 1
          /\ id \in DOMAIN kb_feedback
    /\ Quiet

(***************************************************************************)
(* Vocabulary of the properties of search: the score and the filter as the *)
(* specification words them, on the arguments of the call.                 *)
(***************************************************************************)
\* 1 for a true statement, 0 for a false one
Indicator(statement) == IF statement THEN 1 ELSE 0

\* the sum of f over the set S of arguments
RECURSIVE SumOver(_, _)
SumOver(f, S) ==
    IF S = {} THEN 0
    ELSE LET x == CHOOSE x \in S : TRUE
         IN  f[x] + SumOver(f, S \ {x})

\* the whitespace tokens of s, each by its first and last position: the
\* maximal runs of characters that are not whitespace
Tokens(s) ==
    { t \in (1..Len(s)) \X (1..Len(s)) :
        /\ t[1] <= t[2]
        /\ \A k \in t[1]..t[2] : s[k] \notin Whitespace
        /\ t[1] = 1 \/ s[t[1] - 1] \in Whitespace
        /\ t[2] = Len(s) \/ s[t[2] + 1] \in Whitespace }

\* the score of the problem for the query
ExpectedScore(problem, query) ==
    LET q == Lower(query)
        title == Lower(problem.title)
        keywords == [k \in 1..Len(problem.keywords) |->
                        Lower(problem.keywords[k])]
        long == { t \in Tokens(q) : t[2] - t[1] + 1 > 2 }
        points == [t \in long |->
                     LET token == SubSeq(q, t[1], t[2])
                     IN  Cardinality({ k \in DOMAIN keywords :
                                         Contains(token, keywords[k]) })
                         + Indicator(Contains(token, title))]
    IN  10 * Indicator(Contains(q, title))
        + 5 * Indicator(Contains(q, Lower(problem.description)))
        + 3 * Cardinality({ k \in DOMAIN keywords :
                              \/ Contains(q, keywords[k])
                              \/ Contains(keywords[k], q) })
        + 2 * SumOver(points, long)

\* the problems that pass the category filter of the call: all of them when
\* no category is given (None or the empty string), else those whose
\* category equals it but for the letter case
Filtered ==
    { i \in 1..Len(Catalog) :
        \/ category_arg \in {NoCategory, << >>}
        \/ Lower(Catalog[i].category) = Lower(category_arg) }

(***************************************************************************)
(* C19: search(query, category) gives each problem that passes the         *)
(* case-insensitive category filter the score 10 if the query is a         *)
(* substring of the title, plus 5 if it is a substring of the description, *)
(* plus 3 per keyword that contains the query or is contained in it, plus  *)
(* 2 for each whitespace token of the query longer than 2 characters per   *)
(* keyword containing the token and once more if the title contains it,    *)
(* all comparisons case-insensitive, and reports it as match_score.        *)
(***************************************************************************)
C19_MatchScore ==
    kbLast.op = "search"
    => /\ \A p \in DOMAIN kbLast.problems :
             kbLast.problems[p].match_score =
                 ExpectedScore(Catalog[kbLast.problems[p].problem], query_arg)
       /\ \A i \in Filtered :
             LET score == ExpectedScore(Catalog[i], query_arg)
             IN  score > 0
                 => \E p \in DOMAIN kbLast.problems :
                       kbLast.problems[p] =
                           [problem |-> i, match_score |-> score]

\* a search with a category in another letter case and a query with capital
\* letters, a short token and a long one has reported a problem whose
\* keywords contain both tokens
C19_Witness ==
    /\ kbLast.op = "search"
    /\ category_arg \notin {NoCategory, << >>}
    /\ category_arg # Lower(category_arg)
    /\ query_arg # Lower(query_arg)
    /\ LET q == Lower(query_arg)
       IN  \E p \in DOMAIN kbLast.problems :
             \E short \in Tokens(q) : \E long \in Tokens(q) :
               LET keywords == Catalog[kbLast.problems[p].problem].keywords
               IN  /\ short[2] - short[1] + 1 <= 2
                   /\ long[2] - long[1] + 1 > 2
                   /\ \E k \in DOMAIN keywords :
                         Contains(SubSeq(q, short[1], short[2]),
                                  Lower(keywords[k]))
                   /\ \E k \in DOMAIN keywords :
                         Contains(SubSeq(q, long[1], long[2]),
                                  Lower(keywords[k]))

(***************************************************************************)
(* C20: search returns exactly the filtered problems whose score is        *)
(* greater than 0, ordered by score descending, and two results of equal   *)
(* score appear in catalog (encounter) order.                              *)
(***************************************************************************)
C20_ResultsRanked ==
    kbLast.op = "search"
    => LET results == kbLast.problems
       IN  /\ { results[p].problem : p \in DOMAIN results } =
                { i \in Filtered : ExpectedScore(Catalog[i], query_arg) > 0 }
           /\ \A p, r \in DOMAIN results :
                 p < r
                 => /\ results[p].problem # results[r].problem
                    /\ results[p].match_score >= results[r].match_score
                    /\ results[p].match_score = results[r].match_score
                       => results[p].problem < results[r].problem

\* a search has returned three problems or more, two of them of equal
\* score, one put before a problem that precedes it in the catalog, and has
\* left out a filtered problem of score 0
C20_Witness ==
    /\ kbLast.op = "search"
    /\ Len(kbLast.problems) >= 3
    /\ \E p, r \in DOMAIN kbLast.problems :
          /\ p < r
          /\ kbLast.problems[p].match_score = kbLast.problems[r].match_score
    /\ \E p, r \in DOMAIN kbLast.problems :
          /\ p < r
          /\ kbLast.problems[p].problem > kbLast.problems[r].problem
    /\ \E i \in Filtered : ExpectedScore(Catalog[i], query_arg) = 0

(***************************************************************************)
(* C21: for every problem P of the catalog, search(P.title) with no        *)
(* category filter returns P with match_score >= 10, and no problem        *)
(* without any title, description or keyword match appears ahead of P in   *)
(* the result.                                                             *)
(***************************************************************************)
\* the problem matches the query nowhere: neither the query nor a token of
\* it longer than 2 characters is found in the title or in a keyword, the
\* query is not found in the description and no keyword is found in the
\* query
Matchless(problem, query) ==
    LET q == Lower(query)
        title == Lower(problem.title)
        parts == {q} \cup { SubSeq(q, t[1], t[2]) :
                              t \in { u \in Tokens(q) : u[2] - u[1] + 1 > 2 } }
    IN  /\ \A part \in parts : ~Contains(part, title)
        /\ ~Contains(q, Lower(problem.description))
        /\ \A k \in 1..Len(problem.keywords) :
              /\ ~Contains(Lower(problem.keywords[k]), q)
              /\ \A part \in parts :
                    ~Contains(part, Lower(problem.keywords[k]))

C21_TitleFindsProblem ==
    \A i \in 1..Len(Catalog) :
        ( /\ kbLast.op = "search"
          /\ category_arg = NoCategory
          /\ query_arg = Catalog[i].title )
        => \E p \in DOMAIN kbLast.problems :
              /\ kbLast.problems[p].problem = i
              /\ kbLast.problems[p].match_score >= 10
              /\ \A r \in 1..(p - 1) :
                    ~Matchless(Catalog[kbLast.problems[r].problem], query_arg)

\* a search for the title of a problem, as it is written in the catalog
\* (with a capital letter), has returned the problem and another one, and
\* has left out a problem that matches nowhere
C21_Witness ==
    \E i \in 1..Len(Catalog) :
        /\ kbLast.op = "search"
        /\ category_arg = NoCategory
        /\ query_arg = Catalog[i].title
        /\ query_arg # Lower(query_arg)
        /\ Len(kbLast.problems) >= 2
        /\ \E p \in DOMAIN kbLast.problems : kbLast.problems[p].problem = i
        /\ \E j \in 1..Len(Catalog) :
              /\ Matchless(Catalog[j], query_arg)
              /\ \A p \in DOMAIN kbLast.problems :
                    kbLast.problems[p].problem # j

(***************************************************************************)
(* Vocabulary of the properties of the solution lists.                     *)
(***************************************************************************)
\* the success rate of solution id is greater than / equal to that of
\* solution other, from the counters: s / (s + f), 0 without feedback
Uses(id) == solutions[id].success_count + solutions[id].failure_count
RateAbove(id, other) ==
    solutions[id].success_count * (IF Uses(other) > 0 THEN Uses(other) ELSE 1)
    > solutions[other].success_count * (IF Uses(id) > 0 THEN Uses(id) ELSE 1)
RateEqual(id, other) == ~RateAbove(id, other) /\ ~RateAbove(other, id)

\* the view shows the success rate of its solution
ShowsRate(view) ==
    /\ view.success_rate.den > 0
    /\ view.success_rate.num
           * (IF Uses(view.solution) > 0 THEN Uses(view.solution) ELSE 1)
       = solutions[view.solution].success_count * view.success_rate.den

\* the solutions of the problems of the list top, each with the rank of its
\* problem in top and its position among the solutions of the problem
Pool(top) ==
    UNION { { [rank |-> r, pos |-> k, problem |-> top[r].problem,
               id |-> SolutionsOf(top[r].problem)[k]] :
              k \in 1..Len(SolutionsOf(top[r].problem)) } :
            r \in 1..Len(top) }
\* e comes before f in the pool sorted by success rate: its rate is higher,
\* or the rates are equal and e comes first in the concatenation
PoolBefore(e, f) ==
    \/ RateAbove(e.id, f.id)
    \/ /\ RateEqual(e.id, f.id)
       /\ e.rank < f.rank \/ (e.rank = f.rank /\ e.pos < f.pos)

(***************************************************************************)
(* C22: get_context_for_query returns the no-matches marker with empty     *)
(* lists when search returns nothing; otherwise problems is the first 3    *)
(* search results and top_solutions is the concatenation of the solutions  *)
(* of those problems (in rank order, each with its parent problem) sorted  *)
(* stably by success_rate descending and cut to the first 5, so that a     *)
(* solution of the 3rd-ranked problem with a higher success_rate precedes  *)
(* a solution of the 1st-ranked problem.                                   *)
(***************************************************************************)
C22_ContextRanking ==
    [][ \A qry \in KBQueries :
          (kbLast'.op = "get_context_for_query" /\ GetContextForQuery(qry))
          => LET matches == SearchResults(qry, NoCategory)
                 top == SubSeq(matches, 1,
                               IF Len(matches) < 3 THEN Len(matches) ELSE 3)
                 pool == Pool(top)
                 tops == kbLast'.solutions
                 shown == { tops[a].solution : a \in DOMAIN tops }
                 entries == [a \in DOMAIN tops |->
                               CHOOSE e \in pool : e.id = tops[a].solution]
                            @@ << >>
             IN  /\ kbLast'.ok = (matches # << >>)
                 /\ kbLast'.problems = top
                 /\ Len(tops) = IF Cardinality(pool) < 5
                                THEN Cardinality(pool) ELSE 5
                 /\ \A a \in DOMAIN tops :
                       /\ \E e \in pool :
                             /\ e.id = tops[a].solution
                             /\ e.problem = tops[a].problem
                       /\ ShowsRate(tops[a])
                 /\ \A a, b \in DOMAIN tops :
                       a < b => PoolBefore(entries[a], entries[b])
                 /\ \A e \in pool :
                       e.id \notin shown
                       => \A a \in DOMAIN tops : PoolBefore(entries[a], e)
      ]_vars

\* get_context_for_query has returned three problems out of more and five
\* solutions out of more, the first of them a solution of the 3rd-ranked
\* problem, the second a solution of the 1st-ranked problem
C22_Witness ==
    /\ kbLast.op = "get_context_for_query"
    /\ kbLast.ok
    /\ Len(kbLast.problems) = 3
    /\ \E qry \in KBQueries :
          /\ Len(SearchResults(qry, NoCategory)) > 3
          /\ kbLast.problems =
                SubSeq(SearchResults(qry, NoCategory), 1, 3)
    /\ Cardinality(Pool(kbLast.problems)) > 5
    /\ Len(kbLast.solutions) = 5
    /\ kbLast.solutions[1].problem = kbLast.problems[3].problem
    /\ kbLast.solutions[2].problem = kbLast.problems[1].problem
    /\ RateAbove(kbLast.solutions[1].solution, kbLast.solutions[2].solution)

(***************************************************************************)
(* C23: get_quick_solutions(min_success_rate, min_uses) returns exactly    *)
(* the solutions with success_count + failure_count >= min_uses and        *)
(* success_rate >= min_success_rate, ordered by success_rate descending,   *)
(* each with its parent problem; a solution that has never received        *)
(* feedback is returned only if min_uses <= 0 and min_success_rate <= 0.   *)
(***************************************************************************)
\* the success rate of solution id is at least the fraction rate
RateAtLeast(id, rate) ==
    solutions[id].success_count * rate.den
    >= rate.num * (IF Uses(id) > 0 THEN Uses(id) ELSE 1)

C23_QuickSolutions ==
    [][ \A min_success_rate \in MinRates : \A min_uses \in MinUses :
          ( /\ kbLast'.op = "get_quick_solutions"
            /\ GetQuickSolutions(min_success_rate, min_uses) )
          => LET results == kbLast'.solutions
             IN  /\ { results[a].solution : a \in DOMAIN results } =
                      { id \in DOMAIN solutions :
                          /\ Uses(id) >= min_uses
                          /\ RateAtLeast(id, min_success_rate) }
                 /\ \A a, b \in DOMAIN results :
                       a < b
                       => /\ results[a].solution # results[b].solution
                          /\ ~RateAbove(results[b].solution,
                                        results[a].solution)
                 /\ \A a \in DOMAIN results :
                       /\ results[a].problem =
                             solutions[results[a].solution].problem_id
                       /\ ShowsRate(results[a])
                       /\ Uses(results[a].solution) = 0
                          => (min_uses <= 0 /\ min_success_rate.num <= 0)
      ]_vars

\* get_quick_solutions has returned two solutions, the one of the higher
\* rate first although it comes later in the catalog, and has left out the
\* solutions that never received feedback
C23_Witness ==
    /\ kbLast.op = "get_quick_solutions"
    /\ Len(kbLast.solutions) = 2
    /\ kbLast.solutions[1].solution > kbLast.solutions[2].solution
    /\ RateAbove(kbLast.solutions[1].solution, kbLast.solutions[2].solution)
    /\ \A id \in DOMAIN solutions :
          Uses(id) = 0
          <=> \A a \in DOMAIN kbLast.solutions : kbLast.solutions[a].solution # id

(***************************************************************************)
(* C24: detect_template scores each template as 3 for each keyword that is *)
(* a substring of the lower-cased message, plus 1 for each whitespace      *)
(* token longer than 2 characters of each keyword that is a substring of   *)
(* the message, plus 2 for each whitespace token longer than 2 characters  *)
(* of the template name that is a substring of the message, and returns    *)
(* the first template in insertion order that attains the maximum score    *)
(* if that score is at least 3, and none otherwise.  Keywords, names and   *)
(* the message are compared in lower case.                                 *)
(***************************************************************************)
\* the whitespace tokens of s that are longer than 2 characters
LongTokens(s) == { t \in Tokens(s) : t[2] - t[1] + 1 > 2 }

\* the number of long tokens of s that occur in text
LongTokensIn(s, text) ==
    Cardinality({ t \in LongTokens(s) :
                    Contains(SubSeq(s, t[1], t[2]), text) })

\* the score the template at position i is to have for the message
StatedScore(i, message) ==
    LET text == Lower(message)
        keywords == Templates[i].keywords
    IN  3 * Cardinality({ k \in DOMAIN keywords :
                            Contains(Lower(keywords[k]), text) })
        + SumOver([k \in DOMAIN keywords |->
                     LongTokensIn(Lower(keywords[k]), text)],
                  DOMAIN keywords)
        + 2 * LongTokensIn(Lower(Templates[i].name), text)

C24_DetectScores ==
    [][ DetectTemplate(message_arg)
        => LET score == [i \in DOMAIN Templates |->
                           StatedScore(i, message_arg)] @@ << >>
               top == CHOOSE v \in { score[i] : i \in DOMAIN Templates } :
                         \A i \in DOMAIN Templates : score[i] <= v
               first == CHOOSE i \in DOMAIN Templates :
                           /\ score[i] = top
                           /\ \A j \in 1..(i - 1) : score[j] < top
           IN  IF top >= 3
               THEN /\ detected'.template = first
                    /\ detected'.match_score = top
               ELSE detected' = NoTemplate
      ]_vars

\* detect_template has returned the first template for a message that gives
\* the first two templates the same score, the least score that counts
C24_Witness ==
    /\ message_arg = W_fix \o Sp \o W_web
    /\ detected = [template |-> 1, match_score |-> 3]
    /\ StatedScore(2, message_arg) = 3
    /\ StatedScore(3, message_arg) < 3

(***************************************************************************)
(* C25: detect_template returns none for every message that contains no    *)
(* keyword and no keyword token of any template, even when the message     *)
(* contains words of a template's name.                                    *)
(***************************************************************************)
\* the message contains no keyword of any template and no whitespace token
\* of a keyword
NoKeywordOverlap(message) ==
    LET text == Lower(message)
    IN  \A i \in DOMAIN Templates :
           \A k \in DOMAIN Templates[i].keywords :
              LET keyword == Lower(Templates[i].keywords[k])
              IN  /\ ~Contains(keyword, text)
                  /\ \A t \in Tokens(keyword) :
                        ~Contains(SubSeq(keyword, t[1], t[2]), text)

C25_NoneWithoutKeyword ==
    [][ ( /\ DetectTemplate(message_arg)
          /\ NoKeywordOverlap(message_arg) )
        => detected' = NoTemplate
      ]_vars

(***************************************************************************)
(* C26: get_active_plan(session_id) returns the earliest-created plan      *)
(* whose session is session_id and whose status is in_progress, and        *)
(* returns none when no such plan exists; it never returns a plan of       *)
(* another session or a plan in created, completed, failed or cancelled    *)
(* status.                                                                 *)
(***************************************************************************)
\* the positions of the plans of the session that are in progress
InProgressOf(session_id) ==
    { i \in 1..Len(plans) : /\ plans[i].session_id = session_id
                            /\ plans[i].status = IN_PROGRESS }

\* the plan at position i is the earliest created of those at positions S
EarliestCreated(i, S) ==
    /\ i \in S
    /\ \A j \in S \ {i} : plans[i].created_at < plans[j].created_at

C26_ActivePlan ==
    [][ \A session_id \in Sessions :
          ( /\ last'.op = "get_active_plan"
            /\ GetActivePlan(session_id) )
          => IF InProgressOf(session_id) = {}
             THEN ~last'.ret.ok /\ last'.ret.plan = None
             ELSE /\ last'.ret.ok
                  /\ \E i \in 1..Len(plans) :
                        /\ last'.ret.plan = plans[i].id
                        /\ plans[i].session_id = session_id
                        /\ plans[i].status = IN_PROGRESS
                        /\ EarliestCreated(i, InProgressOf(session_id))
      ]_vars

\* get_active_plan has returned the second plan of a session whose first
\* plan has not been started, and the other session has no plan
C26_Witness ==
    /\ last.op = "get_active_plan"
    /\ last.ret.ok
    /\ last.ret.plan = plans[2].id
    /\ plans[1].session_id = plans[2].session_id
    /\ plans[1].status = CREATED
    /\ plans[1].created_at < plans[2].created_at

(***************************************************************************)
(* C27: start_plan does not look at other plans: a session may hold        *)
(* several plans in in_progress at once (starting a second created plan of *)
(* the same session succeeds), and get_active_plan and                     *)
(* get_context_for_session then keep reporting the earliest-created        *)
(* in_progress plan until it leaves in_progress.                           *)
(***************************************************************************)
C27_SeveralInProgress ==
    [][ /\ \A plan_id \in PlanIds :
             ( /\ last'.op = "start_plan"
               /\ StartPlan(plan_id)
               /\ FindPlan(plan_id) # 0
               /\ plans[FindPlan(plan_id)].status = CREATED )
             => /\ last'.ret.ok
                /\ last'.ret.plan = plan_id
                /\ plans'[FindPlan(plan_id)].status = IN_PROGRESS
                /\ \A i \in 1..Len(plans) :
                      i # FindPlan(plan_id) => plans'[i] = plans[i]
        /\ \A session_id \in Sessions :
             ( /\ Cardinality(InProgressOf(session_id)) >= 1
               /\ \/ /\ last'.op = "get_active_plan"
                     /\ GetActivePlan(session_id)
                  \/ /\ last'.op = "get_context_for_session"
                     /\ GetContextForSession(session_id) )
             => \E i \in InProgressOf(session_id) :
                   /\ EarliestCreated(i, InProgressOf(session_id))
                   /\ IF last'.op = "get_active_plan"
                      THEN last'.ret.plan = plans[i].id
                      ELSE /\ Len(last'.ret.plan) = 1
                           /\ last'.ret.plan[1].id = plans[i].id
      ]_vars

\* both plans of a session are in progress, the second started after the
\* first, and get_context_for_session has reported the first
C27_Witness ==
    /\ plans[1].session_id = plans[2].session_id
    /\ plans[1].status = IN_PROGRESS
    /\ plans[2].status = IN_PROGRESS
    /\ plans[1].started_at < plans[2].started_at
    /\ last.op = "get_context_for_session"
    /\ last.ret.has_active_plan
    /\ last.ret.plan[1].id = plans[1].id

StepsIn(steps, status) ==
    Cardinality({ i \in DOMAIN steps : steps[i].status = status })

C29_ProgressSnapshot ==
    [][ ReadProgress(steps_arg)
        => LET progress == snapshot'[1]
           IN  /\ progress.total = Len(steps_arg)
               /\ progress.completed = StepsIn(steps_arg, COMPLETED)
               /\ progress.failed = StepsIn(steps_arg, FAILED)
               /\ progress.skipped = StepsIn(steps_arg, SKIPPED)
               /\ progress.pending = StepsIn(steps_arg, PENDING)
               /\ progress.in_progress = StepsIn(steps_arg, IN_PROGRESS)
               /\ progress.completed + progress.failed + progress.skipped
                  + progress.pending + progress.in_progress = progress.total
               /\ progress.percent \in 0..100
               /\ progress.percent =
                     IF progress.total = 0 THEN 0
                     ELSE (100 * StepsIn(steps_arg, COMPLETED))
                          \div progress.total
      ]_vars

(***************************************************************************)
(* C30: for every plan, in every reachable state, the step list is the one *)
(* built at creation: the number of steps, their ids, titles and owning    *)
(* plan id never change, and the step at list position i (counted from 0)  *)
(* has order i + 1, so the order values are exactly 1..N.                  *)
(***************************************************************************)
\* the steps of every plan carry the id of the plan and their position
\* (counted from 1) as their order
OrderIsPosition ==
    \A i \in 1..Len(plans) :
       \A k \in 1..Len(plans[i].steps) :
          /\ plans[i].steps[k].order = k
          /\ plans[i].steps[k].plan_id = plans[i].id

\* what a step is, apart from what happens to it
Identity(step) ==
    [id |-> step.id, plan_id |-> step.plan_id, order |-> step.order,
     title |-> step.title, description |-> step.description]

\* a step of the model keeps every plan and the identity of its steps
StepListKept ==
    /\ Len(plans') >= Len(plans)
    /\ \A i \in 1..Len(plans) :
          /\ plans'[i].id = plans[i].id
          /\ Len(plans'[i].steps) = Len(plans[i].steps)
          /\ \A k \in 1..Len(plans[i].steps) :
                Identity(plans'[i].steps[k]) = Identity(plans[i].steps[k])

C30_StepListFixed == []OrderIsPosition /\ [][StepListKept]_vars

\* a plan of two steps after complete_step on the first and fail_step on
\* the second: the steps are those of the blueprint, in its order
C30_Witness ==
    /\ last.op = "fail_step"
    /\ last.ret.ok
    /\ \E i \in 1..Len(plans) :
          /\ Len(plans[i].steps) = 2
          /\ plans[i].steps[1].status = COMPLETED
          /\ plans[i].steps[2].status = FAILED
          /\ plans[i].steps[1].title = StepData(1).title
          /\ plans[i].steps[2].title = StepData(2).title
          /\ plans[i].steps[1].order = 1
          /\ plans[i].steps[2].order = 2

(***************************************************************************)
(* C31: start_plan on a plan in created status sets the plan to            *)
(* in_progress with started_at set, sets the first step to in_progress     *)
(* with its started_at set when the plan has at least one step, and leaves *)
(* every other step of the plan unchanged.                                 *)
(***************************************************************************)
C31_StartPlanEffect ==
    [][ \A plan_id \in PlanIds :
          ( /\ last'.op = "start_plan"
            /\ StartPlan(plan_id)
            /\ FindPlan(plan_id) # 0
            /\ plans[FindPlan(plan_id)].status = CREATED )
          => LET old == plans[FindPlan(plan_id)]
                 new == plans'[FindPlan(plan_id)]
             IN  /\ new.status = IN_PROGRESS
                 /\ new.started_at = now
                 /\ new.started_at # None
                 /\ Len(new.steps) = Len(old.steps)
                 /\ Len(old.steps) >= 1
                    => /\ new.steps[1].status = IN_PROGRESS
                       /\ new.steps[1].started_at = now
                       /\ new.steps[1] =
                             [old.steps[1] EXCEPT !.status = IN_PROGRESS,
                                                  !.started_at = now]
                 /\ \A k \in 2..Len(old.steps) : new.steps[k] = old.steps[k]
                 /\ new = [old EXCEPT !.status = new.status,
                                      !.started_at = new.started_at,
                                      !.steps = new.steps]
      ]_vars

\* start_plan has started a plan of two steps: the first step is in
\* progress since the start of the plan, the second is as it was created
C31_Witness ==
    /\ last.op = "start_plan"
    /\ last.ret.ok
    /\ \E i \in 1..Len(plans) :
          /\ plans[i].id = last.ret.plan
          /\ plans[i].status = IN_PROGRESS
          /\ Len(plans[i].steps) = 2
          /\ plans[i].steps[1].status = IN_PROGRESS
          /\ plans[i].steps[1].started_at = plans[i].started_at
          /\ plans[i].started_at # None
          /\ plans[i].steps[2] =
                NewStep(plans[i].id, plans[i].steps[2].id, 2, StepData(2))

(***************************************************************************)
(* C34: whenever a plan's status is completed, every one of its steps is   *)
(* completed or skipped: no step of a completed plan is pending,           *)
(* in_progress or failed, for any sequence of step operations with         *)
(* arbitrary step ids.                                                     *)
(***************************************************************************)
C34_CompletedPlanSteps ==
    \A i \in 1..Len(plans) :
       plans[i].status = COMPLETED
       => \A k \in 1..Len(plans[i].steps) :
             plans[i].steps[k].status \in {COMPLETED, SKIPPED}

(***************************************************************************)
(* C35: whenever a plan with at least one step has status in_progress, at  *)
(* least one of its steps has status in_progress, so                       *)
(* get_context_for_session always reports a current step for an active     *)
(* plan that has steps.                                                    *)
(***************************************************************************)
C35_ActivePlanHasCurrentStep ==
    /\ \A i \in 1..Len(plans) :
          (plans[i].status = IN_PROGRESS /\ Len(plans[i].steps) >= 1)
          => /\ \E k \in 1..Len(plans[i].steps) :
                   plans[i].steps[k].status = IN_PROGRESS
             /\ CurrentStep(plans[i]) # None
    /\ \A session_id \in Sessions :
          LET context == ContextOf(session_id)
          IN  ( /\ context.has_active_plan
                /\ context.progress[1].total >= 1 )
              => \E i \in 1..Len(plans) : \E k \in 1..Len(plans[i].steps) :
                    /\ context.plan[1].id = plans[i].id
                    /\ context.current_step = plans[i].steps[k].id
                    /\ plans[i].steps[k].status = IN_PROGRESS

\* a plan in progress whose first step is completed and whose second step
\* is in progress, reported as the current step of the session
C35_Witness ==
    \E i \in 1..Len(plans) :
       /\ plans[i].status = IN_PROGRESS
       /\ Len(plans[i].steps) = 2
       /\ plans[i].steps[1].status = COMPLETED
       /\ plans[i].steps[2].status = IN_PROGRESS
       /\ ContextOf(plans[i].session_id).current_step = plans[i].steps[2].id

(***************************************************************************)
(* C37: in every successful complete_step or skip_step result, is_complete *)
(* is true exactly when next_step is absent, and is_complete is true       *)
(* exactly when this call moved the plan to completed.  A call moves the   *)
(* plan to completed when it is the one that writes the status: the step   *)
(* it names is the last step of the plan.                                  *)
(***************************************************************************)
C37_IsCompleteMeansLastStep ==
    [][ \A plan_id \in PlanIds : \A step_id \in StepIds(plan_id) :
          ( /\ last'.op \in {"complete_step", "skip_step"}
            /\ last'.ret.ok
            /\ \/ CompleteStep(plan_id, step_id)
               \/ SkipStep(plan_id, step_id) )
          => LET old == plans[FindPlan(plan_id)]
                 new == plans'[FindPlan(plan_id)]
             IN  /\ last'.ret.is_complete <=> (last'.ret.next_step = None)
                 /\ last'.ret.is_complete
                    <=> ( /\ new.status = COMPLETED
                          /\ old.steps[Len(old.steps)].id = step_id )
      ]_vars

(***************************************************************************)
(* C39: a successful step-transition operation on plan P changes only P    *)
(* and P's steps: every other plan, every other plan's steps, and all      *)
(* knowledge-base state are left unchanged.                                *)
(***************************************************************************)
C39_OnlyThePlanChanges ==
    [][ \A plan_id \in PlanIds : \A step_id \in StepIds(plan_id) :
          ( /\ last'.op \in {"complete_step", "skip_step", "fail_step"}
            /\ last'.ret.ok
            /\ \/ CompleteStep(plan_id, step_id)
               \/ SkipStep(plan_id, step_id)
               \/ \E error_message \in MessageInputs :
                     FailStep(plan_id, step_id, error_message) )
          => /\ Len(plans') = Len(plans)
             /\ \A i \in 1..Len(plans) :
                   i # FindPlan(plan_id) => plans'[i] = plans[i]
             /\ plans'[FindPlan(plan_id)] # plans[FindPlan(plan_id)]
             /\ UNCHANGED <<solutions, kb_feedback, pending, sent, kbLast>>
      ]_vars

\* complete_step has completed the only step of the first of two plans of
\* a session, and the second plan is as it was created
C39_Witness ==
    /\ last.op = "complete_step"
    /\ last.ret.ok
    /\ Len(plans) = 2
    /\ last.ret.plan = plans[1].id
    /\ plans[1].status = COMPLETED
    /\ plans[1].session_id = plans[2].session_id
    /\ plans[2].status = CREATED
    /\ \A k \in 1..Len(plans[2].steps) : plans[2].steps[k].status = PENDING
    /\ solutions = BootSolutions
    /\ kb_feedback = NoRows

(***************************************************************************)
(* C32: search, get_context_for_query, get_quick_solutions,                *)
(* detect_template, get_active_plan and get_context_for_session are        *)
(* read-only: none of them changes a problem, a solution counter (in       *)
(* memory or stored), a template, a plan or a step; and no operation at    *)
(* all changes the catalog fields after bootstrap: the solutions stay the  *)
(* same ones under the same problems, and only their counters change.      *)
(* (The problems and the templates are the definitions Catalog and         *)
(* Templates, which no action can write.)                                  *)
(***************************************************************************)
\* the step is one of the six calls and has put a new result in place
ReadCall ==
    \/ /\ kbLast' # kbLast
       /\ kbLast'.op \in {"search", "get_context_for_query",
                          "get_quick_solutions"}
    \/ detected' # detected
    \/ /\ last' # last
       /\ last'.op \in {"get_active_plan", "get_context_for_session"}

C32_ReadOnly ==
    [][ /\ ReadCall => UNCHANGED <<plans, nextUuid, solutions, kb_feedback>>
        /\ DOMAIN solutions' = DOMAIN solutions
        /\ \A id \in DOMAIN solutions :
              solutions'[id].problem_id = solutions[id].problem_id
      ]_vars

\* every kind of read has been served on a service that has a plan in
\* progress and a rated solution, and the plan, the counter and its stored
\* row are as the writes left them
C32_Witness ==
    /\ kbLast.op = "get_quick_solutions"
    /\ kbLast.solutions # << >>
    /\ detected # NoTemplate
    /\ last.op = "get_context_for_session"
    /\ last.ret.has_active_plan
    /\ plans[1].status = IN_PROGRESS
    /\ solutions[SolutionsOf(1)[1]].success_count = 1
    /\ kb_feedback # NoRows

(***************************************************************************)
(* C38: when persistence never fails, the persisted tally tracks the       *)
(* in-memory tally: after any sequence of record_feedback calls in one run *)
(* of the process, for every solution id that received feedback the stored *)
(* success_count and failure_count equal the in-memory counters, and ids   *)
(* that received none have no stored row.  Stated step by step: the        *)
(* tallies agree after construction, and every step that is not a failing  *)
(* call of the database keeps them in agreement.                           *)
(***************************************************************************)
\* the stored tally agrees with the tally in memory
Tracks ==
    /\ DOMAIN kb_feedback \subseteq DOMAIN solutions
    /\ \A id \in DOMAIN solutions :
          IF solutions[id].success_count + solutions[id].failure_count > 0
          THEN /\ id \in DOMAIN kb_feedback
               /\ kb_feedback[id].success_count = solutions[id].success_count
               /\ kb_feedback[id].failure_count = solutions[id].failure_count
          ELSE id \notin DOMAIN kb_feedback

\* the step is a record_feedback whose call of the database fails
PersistFails ==
    \E c \in Callers :
       /\ pending[c] # NoRequest
       /\ pending[c].solution_id \in DOMAIN solutions
       /\ HandleFeedback(c, FALSE)

C38_StoredTallyTracks ==
    /\ Tracks
    /\ [][ (Tracks /\ ~PersistFails) => Tracks' ]_vars

\* two feedbacks on one solution have been recorded and stored, one of each
\* kind, and no other solution has a row
C38_Witness ==
    /\ Tracks
    /\ kbLast.op = "record_feedback"
    /\ kbLast.db = "ok"
    /\ \A c \in Callers : pending[c] = NoRequest
    /\ \E id \in DOMAIN solutions :
          /\ solutions[id].success_count = 1
          /\ solutions[id].failure_count = 1
          /\ kb_feedback[id] = [success_count |-> 1, failure_count |-> 1]
          /\ DOMAIN kb_feedback = {id}

(***************************************************************************)
(* C36: every started plan can be driven to a terminal status by step      *)
(* operations: for a plan with any number of steps N >= 0, after           *)
(* start_plan, repeatedly completing or skipping the current step          *)
(* eventually sets the plan to completed, so no plan stays in_progress     *)
(* (and reported as the session's active plan) forever.                    *)
(***************************************************************************)
C36_StartedPlanCompletes ==
    (plans[1].status = IN_PROGRESS) ~> (plans[1].status = COMPLETED)

(***************************************************************************)
(* C33: feedback persisted by record_feedback in one run of the process is *)
(* restored at the next bootstrap: after a restart, each catalog           *)
(* solution's success_count and failure_count equal the values persisted   *)
(* for that solution before the restart.                                   *)
(***************************************************************************)
C33_RestartRestoresFeedback ==
    [][ Restart
        => \A k \in 1..CatalogSize :
              LET before == RunBase + k
                  after == RunBase + CatalogSize + k
                  persisted ==
                      IF before \in DOMAIN kb_feedback
                      THEN kb_feedback[before]
                      ELSE [success_count |-> 0, failure_count |-> 0]
              IN  /\ solutions'[after].problem_id
                        = solutions[before].problem_id
                  /\ solutions'[after].success_count
                        = persisted.success_count
                  /\ solutions'[after].failure_count
                        = persisted.failure_count
      ]_vars
====
